---- MODULE Spec2Model ----
(***************************************************************************)
(* State-machine model of the Genvex / Nabto client:                       *)
(*   NabtoConnection (the session: socket, sequence counter, pending-      *)
(*   request table, keep-alive timer, connect handshake),                  *)
(*   NabtoClient (owner of the session object) and                         *)
(*   GenvexDevice (the polling engine: poll timer, consecutive-error       *)
(*   counter, event fan-out).                                              *)
(*                                                                         *)
(* One action is one event-loop step (a socket callback, a timer callback, *)
(* or a call made by the host), including the promise continuations        *)
(* (microtasks) it triggers.  The methods of the classes are operators on  *)
(* a record of the program state; an action applies them in the order the  *)
(* code calls them and commits the resulting record.                       *)
(***************************************************************************)
EXTENDS Integers, Sequences, FiniteSets, TLC

----------------------------------------------------------------------------
(* Bounds of the model *)

\* user requests (caller futures) created on one session
MaxReq == 3
\* keep-alive timer ticks that send a ping
MaxKeepAlive == 1
\* distance of the sequence counter from 65535 in the long-running session
WrapMargin == 1
\* sequence numbers allocated beyond 65535
MaxOverflow == 4
\* the raw values the device reports for the two registers of the model
DeviceTemp == 500
DeviceFan == 2
\* the display value the host writes with setValue("fanSpeed", v)
SetFan == 3
\* valid discovery responses collected by one discover()
MaxResponses == 3
\* keys of a read request and values of a response in a call of the
\* result-map closure
MaxKeys == 3
MaxValues == 3
\* largest magnitude of an integer display value converted to raw and back
MaxDisplay == 40
\* calls of _connect by a host device
MaxAttempts == 2
\* entries of a list command built by the codec
MaxEntries == 90

----------------------------------------------------------------------------
(* Program constants *)

SeqStart == 300
KeepAliveLo == 100
KeepAliveHi == 200
PingSeq == 50
MaxUInt16 == 65535
maxConsecutiveErrors == 3
connectRetries == 5
HDR_SIZE == 16
DiscoveryRetries == 3
DiscoveryRespMinLen == 20
DiscoveryRspWord == 8388609
ConnectRespMinLen == 28
StatusOk == 1
PAYLOAD_CRYPT == 54
CRYPTO_CLEARTEXT == 10
PAYLOAD_IPX == 53
HDR_VERSION == 2
TYPE_DATA == 22
FLAG_TAG == 64
CMD_PING == 17
CMD_SETPOINT_READLIST == 42
CMD_SETPOINT_WRITELIST == 43
CMD_DATAPOINT_READLIST == 45

Kinds == {"dp", "sp", "wr"}
Owners == {"poll", "setValue"}
SessionEvents == {"connected", "disconnected", "error", "model", "data"}
DeviceEvents == {"connected", "disconnected", "error", "model", "data", "polled"}
ServerIds == {11, 12}

\* The register catalog (Optima 251), reduced to its first datapoint and its
\* first setpoint.
TEMP_SUPPLY == [name |-> "supplyTemperature", divider |-> 10, offset |-> -300]

FAN_SPEED ==
  [name |-> "fanSpeed", writeAddress |-> 100, divider |-> 1, offset |-> 0,
   min |-> 0, max |-> 4]

Optima251Datapoints == [k \in {"TEMP_SUPPLY"} |-> TEMP_SUPPLY]

Optima251Setpoints == [k \in {"FAN_SPEED"} |-> FAN_SPEED]

\* getDatapointRequestList().keys and getSetpointRequestList().keys
DatapointKeys == <<"TEMP_SUPPLY">>

SetpointKeys == <<"FAN_SPEED">>

RegisterNames == {TEMP_SUPPLY.name, FAN_SPEED.name}

\* A JavaScript number that is a quotient of integers, in lowest terms.
RECURSIVE Gcd(_, _)
Gcd(a, b) == IF b = 0 THEN a ELSE Gcd(b, a % b)

Abs(x) == IF x < 0 THEN -x ELSE x

Quotient(n, d) ==
  LET g == Gcd(Abs(n), d) IN
  IF g = 0 THEN [num |-> 0, den |-> 1] ELSE [num |-> n \div g, den |-> d \div g]

\* Map.get of a name that was never set
Undefined == [num |-> 0, den |-> 0]

\* new Map()
EmptyCache == [n \in RegisterNames |-> Undefined]

\* register.offset || 0 and register.divider || 1: an absent field and 0
\* give the default
OffsetOf(register) ==
  IF "offset" \in DOMAIN register THEN register.offset ELSE 0

DividerOf(register) ==
  IF "divider" \in DOMAIN register /\ register.divider # 0
  THEN register.divider ELSE 1

\* convertDatapointValue: (raw + (offset || 0)) / (divider || 1)
ConvertDatapointValue(rawValue, register) ==
  Quotient(rawValue + OffsetOf(register), DividerOf(register))

\* convertSetpointValue: the same formula
ConvertSetpointValue(rawValue, register) ==
  Quotient(rawValue + OffsetOf(register), DividerOf(register))

\* Math.round of the quotient n / d (d > 0): halves round up
Round(n, d) == (2 * n + d) \div (2 * d)

\* a conversion that adds the offset back instead of removing it
ToRawSetpointValueAddOffset(displayValue, register) ==
  Round(displayValue.num * DividerOf(register), displayValue.den)
    + OffsetOf(register)

\* toRawSetpointValue: Math.round(display * (divider || 1)) - (offset || 0)
ToRawSetpointValue(displayValue, register) ==
  Round(displayValue.num * DividerOf(register), displayValue.den)
    - OffsetOf(register)

\* getSetpointByName: the setpoint of the catalog with that name, if any
GetSetpointByName(name) ==
  LET found == {k \in DOMAIN Optima251Setpoints :
                  Optima251Setpoints[k].name = name}
  IN  IF found = {} THEN [name |-> ""]
      ELSE Optima251Setpoints[CHOOSE k \in found : TRUE]

----------------------------------------------------------------------------
(* Program state *)

VARIABLES
  socket,            \* NabtoConnection.socket: "null" or "open"
  connected,         \* NabtoConnection.connected
  serverId,          \* NabtoConnection.serverId
  seqId,             \* NabtoConnection.seqId
  keepAliveSeq,      \* NabtoConnection.keepAliveSeq
  keepAliveTimer,    \* NabtoConnection.keepAliveTimer is armed
  pendingRequests,   \* NabtoConnection.pendingRequests: seq -> request
  modelInfo,         \* NabtoConnection.modelInfo
  bindDone,          \* the bind callback of connect() has run
  onceConnected,     \* the once('connected') listener of connect() is registered
  connPromise,       \* the promise of connect(): none, pending, resolved, rejected
  retryTimers,       \* armed U_CONNECT retransmission timers
  connTimeout,       \* the connect deadline timer is armed
  timeouts,          \* requests whose 5 s timer is armed
  closeEvt,          \* a socket 'close' event is queued
  clientConn,        \* NabtoClient.connection is set
  gConn,             \* GenvexDevice.connection is set
  listeners,         \* GenvexDevice's listeners are attached to the session
  pollTimer,         \* GenvexDevice.pollTimer is armed
  consecutiveErrors, \* GenvexDevice.consecutiveErrors
  reqs,              \* the caller futures created by the request API
  data,              \* GenvexDevice.data: register name -> cached value
  kaTicks,           \* keep-alive pings sent (bounded by MaxKeepAlive)
  last,              \* what the last step that did anything did
  host,              \* the Homey device that owns the engine, if any
  disc,              \* NabtoDiscovery: the socket and the closure of discover()
  call               \* a call of a pure function: its arguments and result

vars == <<socket, connected, serverId, seqId, keepAliveSeq, keepAliveTimer,
          pendingRequests, modelInfo, bindDone, onceConnected, connPromise,
          retryTimers, connTimeout, timeouts, closeEvt, clientConn, gConn,
          listeners, pollTimer, consecutiveErrors, reqs, data, kaTicks,
          last, host, disc, call>>

\* the fields of the session, its owner and the engine
sessionVars ==
  <<socket, connected, serverId, seqId, keepAliveSeq, keepAliveTimer,
    pendingRequests, modelInfo, bindDone, onceConnected, connPromise,
    retryTimers, connTimeout, timeouts, closeEvt, clientConn, gConn,
    listeners, pollTimer, consecutiveErrors, reqs, data, kaTicks, last,
    host>>

others == <<sessionVars, disc>>

NoReq == [kind |-> "none", owner |-> "none", seq |-> -1, result |-> "none"]

NoEmitS == [e \in SessionEvents |-> 0]

NoEmitG == [e \in DeviceEvents |-> 0]

\* What one event-loop step did: the handler that ran, how it ended, the
\* request it made, the events the session and the engine emitted, the packets
\* it sent, the futures it settled, the session-wide failure it met, the
\* calls of NabtoConnection.disconnect it made.
NoLast == [op |-> "init", arg |-> -1, result |-> "", req |-> NoReq,
           sEmit |-> NoEmitS, gEmit |-> NoEmitG, sent |-> <<>>, settled |-> {},
           failure |-> "none", disc |-> 0]

\* An engine used without a Homey device: constructed with the Optima 251
\* model object, no host listeners.  Of a host: its class, the model option it
\* passes to the engine, this.genvex is set, _destroyed, reconnectTimer is
\* armed, the calls of _connect so far, onDeleted or onUninit has run.
NoHost ==
  [class |-> "none", model |-> "Optima251Model", genvex |-> FALSE,
   destroyed |-> FALSE, reconnectTimer |-> FALSE, attempts |-> 0,
   deleted |-> FALSE]

\* new NabtoDiscovery(): no socket, no discover() running.  devices,
\* retryTimers and timeout are the closure of discover(); promise and result
\* are its future; answered, sent, emitted and thrown record what happened:
\* the devices whose valid response arrived, packets sent, device events
\* emitted, a timer callback that threw.
NoDisc == [socket |-> "null", promise |-> "none", bound |-> FALSE,
           devices |-> <<>>, retryTimers |-> 0, timeout |-> FALSE,
           result |-> <<>>, answered |-> {}, sent |-> 0, emitted |-> 0,
           thrown |-> FALSE]

NoCall == [fn |-> "none"]

\* The program state as one record; micro is the microtask queue, which is
\* empty between event-loop steps.
Cur ==
  [socket |-> socket, connected |-> connected, serverId |-> serverId,
   seqId |-> seqId, keepAliveSeq |-> keepAliveSeq,
   keepAliveTimer |-> keepAliveTimer, pendingRequests |-> pendingRequests,
   modelInfo |-> modelInfo, bindDone |-> bindDone,
   onceConnected |-> onceConnected, connPromise |-> connPromise,
   retryTimers |-> retryTimers, connTimeout |-> connTimeout,
   timeouts |-> timeouts, closeEvt |-> closeEvt, clientConn |-> clientConn,
   gConn |-> gConn, listeners |-> listeners, pollTimer |-> pollTimer,
   consecutiveErrors |-> consecutiveErrors, reqs |-> reqs, data |-> data,
   kaTicks |-> kaTicks, last |-> last, host |-> host, micro |-> <<>>]

Commit(s) ==
  /\ socket' = s.socket
  /\ connected' = s.connected
  /\ serverId' = s.serverId
  /\ seqId' = s.seqId
  /\ keepAliveSeq' = s.keepAliveSeq
  /\ keepAliveTimer' = s.keepAliveTimer
  /\ pendingRequests' = s.pendingRequests
  /\ modelInfo' = s.modelInfo
  /\ bindDone' = s.bindDone
  /\ onceConnected' = s.onceConnected
  /\ connPromise' = s.connPromise
  /\ retryTimers' = s.retryTimers
  /\ connTimeout' = s.connTimeout
  /\ timeouts' = s.timeouts
  /\ closeEvt' = s.closeEvt
  /\ clientConn' = s.clientConn
  /\ gConn' = s.gConn
  /\ listeners' = s.listeners
  /\ pollTimer' = s.pollTimer
  /\ consecutiveErrors' = s.consecutiveErrors
  /\ reqs' = s.reqs
  /\ data' = s.data
  /\ kaTicks' = s.kaTicks
  /\ last' = s.last
  /\ host' = s.host
  /\ UNCHANGED disc

\* The start of an event-loop step: a fresh record of what the step does.
Begin(s, op, arg) == [s EXCEPT !.last = [NoLast EXCEPT !.op = op, !.arg = arg]]

\* A session-wide failure: socket, connect or polls.
MarkFailure(s, what) == [s EXCEPT !.last.failure = what]

----------------------------------------------------------------------------
(* Event emitters *)

\* _clearReconnect and _scheduleReconnect of both host classes
HostClearReconnect(s) == [s EXCEPT !.host.reconnectTimer = FALSE]

HostScheduleReconnect(s) ==
  [HostClearReconnect(s) EXCEPT !.host.reconnectTimer = TRUE]

\* The 'disconnected' listener _connect attaches to the engine.  Only
\* Optima251Device tests _destroyed; in Optima270Device it is never set.
HostOnDisconnected(s) ==
  IF s.host.class = "none" THEN s
  ELSE IF s.host.class = "Optima251Device" /\ s.host.destroyed THEN s
  ELSE HostScheduleReconnect(s)

\* the catch block of _connect, run when genvex.connect() rejects
HostConnectFailed(s) ==
  IF s.host.class = "none" THEN s ELSE HostScheduleReconnect(s)

\* GenvexDevice.emit with the listeners the host attaches: 'disconnected'
\* schedules a reconnect, the others log or update capabilities.
EmitG(s, ev) ==
  LET s1 == [s EXCEPT !.last.gEmit[ev] = @ + 1] IN
  IF ev = "disconnected" THEN HostOnDisconnected(s1) ELSE s1

\* a stopPolling that leaves the interval timer armed
StopPollingKeepTimer(s) == s

\* GenvexDevice.stopPolling

StopPolling(s) == [s EXCEPT !.pollTimer = FALSE]

\* resolve(true) / reject(err) of the promise of NabtoConnection.connect()
ResolveConnect(s) ==
  IF s.connPromise = "pending"
  THEN [s EXCEPT !.connPromise = "resolved",
                 !.micro = Append(@, [t |-> "connectResolved", rid |-> 0,
                                      owner |-> "connect"])]
  ELSE s

RejectConnect(s) ==
  IF s.connPromise = "pending"
  THEN [s EXCEPT !.connPromise = "rejected",
                 !.micro = Append(@, [t |-> "connectRejected", rid |-> 0,
                                      owner |-> "connect"])]
  ELSE s

\* the once('connected') listener registered by connect()
OnceConnected(s) ==
  ResolveConnect([s EXCEPT !.onceConnected = FALSE, !.connTimeout = FALSE,
                           !.retryTimers = 0])

\* NabtoConnection.emit with the listeners GenvexDevice.connect attaches.
\* An 'error' emitted with no listener attached is thrown by the emitter.
EmitS(s, ev) ==
  LET s1 == [s EXCEPT !.last.sEmit[ev] = @ + 1] IN
  CASE ev = "connected" -> IF s1.onceConnected THEN OnceConnected(s1) ELSE s1
    [] ev = "error" -> IF s1.listeners THEN EmitG(s1, "error")
                       ELSE [s1 EXCEPT !.last.result = "uncaught"]
    [] ev = "disconnected" -> IF s1.listeners
                              THEN EmitG(StopPolling(s1), "disconnected")
                              ELSE s1
    [] ev = "model" -> IF s1.listeners THEN EmitG(s1, "model") ELSE s1
    [] OTHER -> s1

----------------------------------------------------------------------------
(* NabtoConnection: sending, keep-alive, disconnect *)

\* _send: silently nothing without a socket
Send(s, pkt) ==
  IF s.socket = "null" THEN s ELSE [s EXCEPT !.last.sent = Append(@, pkt)]

\* a sendPacket without its guard
SendConnectPacketUnguarded(s) ==
  [s EXCEPT !.last.sent = Append(@, [t |-> "U_CONNECT", seq |-> 0])]

\* sendPacket of connect(): the U_CONNECT packet, seq 0
SendConnectPacket(s) ==
  IF s.connected \/ s.socket = "null"
  THEN s
  ELSE [s EXCEPT !.last.sent = Append(@, [t |-> "U_CONNECT", seq |-> 0])]

\* buildPingPacket always builds the DATA packet with sequence number 50
BuildPingPacket == [t |-> "PING", seq |-> PingSeq]

SendPing(s) == Send(s, BuildPingPacket)

StopKeepAlive(s) == [s EXCEPT !.keepAliveTimer = FALSE]

StartKeepAlive(s) == [StopKeepAlive(s) EXCEPT !.keepAliveTimer = TRUE]

\* the timers of the entries of the pending-request table
PendingTimers(s) == {s.pendingRequests[q] : q \in DOMAIN s.pendingRequests}

EmptyTable == [q \in {} |-> 0]

\* disconnect that clears the table but leaves the entries' timers armed
SDisconnectKeepTimers(s) ==
  LET s1 == StopKeepAlive([s EXCEPT !.connected = FALSE, !.last.disc = @ + 1])
      s2 == IF s1.socket # "null"
            THEN [s1 EXCEPT !.socket = "null", !.closeEvt = TRUE]
            ELSE s1
      s4 == [s2 EXCEPT !.pendingRequests = EmptyTable]
  IN  EmitS(s4, "disconnected")

\* NabtoConnection.disconnect
SDisconnect(s) ==
  LET s1 == StopKeepAlive([s EXCEPT !.connected = FALSE, !.last.disc = @ + 1])
      s2 == IF s1.socket # "null"
            THEN [s1 EXCEPT !.socket = "null", !.closeEvt = TRUE]
            ELSE s1
      s3 == [s2 EXCEPT !.timeouts = @ \ PendingTimers(s2)]
      s4 == [s3 EXCEPT !.pendingRequests = EmptyTable]
  IN  EmitS(s4, "disconnected")

----------------------------------------------------------------------------
(* NabtoConnection: the request API *)

Min(a, b) == IF a < b THEN a ELSE b

\* Buffer.readUInt16BE(off) and readInt16BE(off), off counted from 0
U16(b, off) == b[off + 1] * 256 + b[off + 2]

S16(b, off) == IF U16(b, off) >= 32768 THEN U16(b, off) - 65536 ELSE U16(b, off)

\* NabtoPacket.parseDatapointResponse: count(2) + signed 16-bit values
ParseDatapointResponse(payload) ==
  IF Len(payload) < 2 THEN <<>>
  ELSE LET n == Min(U16(payload, 0), (Len(payload) - 2) \div 2)
       IN  [i \in 1..n |-> S16(payload, 2 * i)]

\* NabtoPacket.parseSetpointResponse: skip(1) + count(2) + unsigned values
ParseSetpointResponse(payload) ==
  IF Len(payload) < 3 THEN <<>>
  ELSE LET n == Min(U16(payload, 1), (Len(payload) - 3) \div 2)
       IN  [i \in 1..n |-> U16(payload, 2 * i + 1)]

\* a resolve closure that gives every requested key a value, 0 when the
\* response carried none for it
ResolveReadAllKeys(kind, keys, cmdData) ==
  LET values == IF kind = "dp" THEN ParseDatapointResponse(cmdData)
                ELSE ParseSetpointResponse(cmdData)
  IN  [k \in {keys[i] : i \in 1..Len(keys)} |->
         LET i == CHOOSE j \in 1..Len(keys) : keys[j] = k IN
         IF i <= Len(values) THEN values[i] ELSE 0]

\* the resolve closure of readDatapoints / readSetpoints called with keys:
\* the result map, keyed by the first min(|keys|, |values|) keys
ResolveRead(kind, keys, cmdData) ==
  LET values == IF kind = "dp" THEN ParseDatapointResponse(cmdData)
                ELSE ParseSetpointResponse(cmdData)
      n == Min(Len(keys), Len(values))
  IN  [k \in {keys[i] : i \in 1..n} |->
         values[CHOOSE i \in 1..n : keys[i] = k]]

\* the resolve closure of a pending entry: the result map of a read of the
\* catalog's keys; nothing for a write
ResolveResult(kind, cmdData) ==
  IF kind = "wr" THEN <<>>
  ELSE ResolveRead(kind, IF kind = "dp" THEN DatapointKeys ELSE SetpointKeys,
                   cmdData)

\* the error a request's 5 s timeout rejects with
TimeoutError(kind) == IF kind = "wr" THEN "WriteTimeout" ELSE "ReadTimeout"

\* _nextSeqId that returns the counter without advancing it
NextSeqIdStuck(s) == [seq |-> s.seqId, st |-> s]

\* _nextSeqId: return this.seqId++
NextSeqId(s) == [seq |-> s.seqId, st |-> [s EXCEPT !.seqId = @ + 1]]

\* a request API without the connected check
RequestAllowedAlways(s) == TRUE

\* if (!this.connected) throw new Error('Not connected')
RequestAllowed(s) == s.connected

\* buildHeader: writeUInt16BE(seqId, 12) throws a RangeError outside 0..65535
BuildHeaderOk(seq) == seq \in 0..MaxUInt16

\* pendingRequests.set(seq, entry)
TableSet(tbl, seq, rid) ==
  [q \in DOMAIN tbl \cup {seq} |-> IF q = seq THEN rid ELSE tbl[q]]

\* pendingRequests.delete(seq)
TableDelete(tbl, seq) == [q \in DOMAIN tbl \ {seq} |-> tbl[q]]

\* an async function that throws: its promise is rejected, the awaiting
\* caller continues in its catch block
RejectSync(s, owner) ==
  [s EXCEPT !.micro = Append(@, [t |-> "failed", rid |-> 0, owner |-> owner])]

\* the frame of an async caller that holds nothing
NoFrame == [name |-> "", value |-> Undefined]

\* readDatapoints / readSetpoints / writeSetpoints called by owner; the
\* packet of a write carries the entries to write
RequestWith(s, kind, owner, entries) ==
  IF ~RequestAllowed(s)
  THEN RejectSync([s EXCEPT !.last.req = [kind |-> kind, owner |-> owner,
                                          seq |-> -1,
                                          result |-> "notConnected"]], owner)
  ELSE LET a == NextSeqId(s)
           s1 == a.st
       IN  IF ~BuildHeaderOk(a.seq)
           THEN RejectSync([s1 EXCEPT !.last.req = [kind |-> kind,
                                                    owner |-> owner,
                                                    seq |-> a.seq,
                                                    result |-> "rangeError"]],
                           owner)
           ELSE LET rid == Len(s1.reqs) + 1
                    s2 == [s1 EXCEPT
                             !.reqs = Append(@, [kind |-> kind, owner |-> owner,
                                                 seq |-> a.seq, settles |-> 0,
                                                 outcome |-> "none",
                                                 value |-> <<>>,
                                                 frame |-> NoFrame]),
                             !.timeouts = @ \cup {rid},
                             !.pendingRequests = TableSet(@, a.seq, rid),
                             !.last.req = [kind |-> kind, owner |-> owner,
                                           seq |-> a.seq,
                                           result |-> "pending"]]
                IN  Send(s2, IF kind = "wr"
                                 THEN [t |-> kind, seq |-> a.seq,
                                       entries |-> entries]
                                 ELSE [t |-> kind, seq |-> a.seq])

Request(s, kind, owner) == RequestWith(s, kind, owner, <<>>)

\* resolve / reject of the promise of request rid: only the first call
\* settles the future and schedules the awaiting caller
Settle(s, rid, how) ==
  LET first == s.reqs[rid].settles = 0 IN
  [s EXCEPT !.reqs[rid].settles = IF @ < 2 THEN @ + 1 ELSE @,
            !.reqs[rid].outcome = IF first THEN how ELSE @,
            !.last.settled = @ \cup {rid},
            !.micro = IF first
                      THEN Append(@, [t |-> how, rid |-> rid,
                                      owner |-> s.reqs[rid].owner])
                      ELSE @]

\* a timeout callback that rejects but leaves the entry in the table
OnRequestTimeoutKeep(s, rid) ==
  Settle([s EXCEPT !.timeouts = @ \ {rid}], rid, "timeout")

\* a timeout callback that gives up on every pending request
OnRequestTimeoutDropAll(s, rid) ==
  LET s1 == [s EXCEPT !.timeouts = {}, !.pendingRequests = EmptyTable,
                      !.last.result = TimeoutError(s.reqs[rid].kind)]
  IN  Settle(s1, rid, "timeout")

\* the 5 s timeout callback of request rid
OnRequestTimeout(s, rid) ==
  LET s1 == [s EXCEPT !.timeouts = @ \ {rid},
                      !.pendingRequests = TableDelete(@, s.reqs[rid].seq),
                      !.last.result = TimeoutError(s.reqs[rid].kind)]
  IN  Settle(s1, rid, "timeout")

\* a response handler that forgets clearTimeout(pending.timeout)
ResolvePendingNoClear(s, seq, cmdData) ==
  IF seq \in DOMAIN s.pendingRequests
  THEN LET rid == s.pendingRequests[seq]
           s2 == [s EXCEPT !.pendingRequests = TableDelete(@, seq),
                           !.reqs[rid].value =
                              ResolveResult(s.reqs[rid].kind, cmdData)]
       IN  Settle(s2, rid, "resolved")
  ELSE s

\* a response handler that matches by arrival order when the sequence
\* number is unknown: it fulfils the oldest pending request
ResolvePendingOldest(s, seq, cmdData) ==
  LET dom == DOMAIN s.pendingRequests
      key == IF seq \in dom \/ dom = {} THEN seq
             ELSE CHOOSE q \in dom : \A p \in dom : q <= p
  IN  IF key \in dom
      THEN LET rid == s.pendingRequests[key]
               s1 == [s EXCEPT !.timeouts = @ \ {rid}]
               s2 == [s1 EXCEPT !.pendingRequests = TableDelete(@, key),
                                !.reqs[rid].value =
                                   ResolveResult(s.reqs[rid].kind, cmdData)]
           IN  Settle(s2, rid, "resolved")
      ELSE s

\* _handleMessage, lines 125-131: resolve the pending request by seqId
ResolvePending(s, seq, cmdData) ==
  IF seq \in DOMAIN s.pendingRequests
  THEN LET rid == s.pendingRequests[seq]
           s1 == [s EXCEPT !.timeouts = @ \ {rid}]
           s2 == [s1 EXCEPT !.pendingRequests = TableDelete(@, seq),
                            !.reqs[rid].value =
                               ResolveResult(s.reqs[rid].kind, cmdData)]
       IN  Settle(s2, rid, "resolved")
  ELSE s

----------------------------------------------------------------------------
(* GenvexDevice and NabtoClient *)

\* NabtoClient.disconnect
ClientDisconnect(s) ==
  IF s.clientConn THEN [SDisconnect(s) EXCEPT !.clientConn = FALSE] ELSE s

\* a disconnect that also empties the cache
GDisconnectClearCache(s) ==
  LET s1 == ClientDisconnect(StopPolling(s))
      s2 == [s1 EXCEPT !.gConn = FALSE, !.data = EmptyCache]
  IN  EmitG(s2, "disconnected")

\* GenvexDevice.disconnect
GDisconnect(s) ==
  LET s1 == ClientDisconnect(StopPolling(s))
      s2 == [s1 EXCEPT !.gConn = FALSE]
  IN  EmitG(s2, "disconnected")

\* a catch block that counts and reports but never escalates
PollCatchNoEscalation(s) ==
  EmitG([s EXCEPT !.consecutiveErrors = (@ + 1) % maxConsecutiveErrors],
        "error")

\* a catch block that escalates only above the limit
PollCatchAboveLimit(s) ==
  LET s1 == EmitG([s EXCEPT !.consecutiveErrors = @ + 1], "error") IN
  IF s1.consecutiveErrors > maxConsecutiveErrors
  THEN GDisconnect(EmitG(MarkFailure([s1 EXCEPT !.consecutiveErrors = 0],
                                     "polls"), "error"))
  ELSE s1

\* GenvexDevice.poll, the catch block
PollCatch(s) ==
  LET s1 == EmitG([s EXCEPT !.consecutiveErrors = @ + 1], "error") IN
  IF s1.consecutiveErrors >= maxConsecutiveErrors
  THEN GDisconnect(EmitG(MarkFailure([s1 EXCEPT !.consecutiveErrors = 0],
                                     "polls"), "error"))
  ELSE s1

\* a poll without the guard of its first line
PollUnguarded(s) == Request(s, "dp", "poll")

\* a poll that sends both reads at once
PollParallel(s) ==
  IF ~s.gConn \/ ~s.connected THEN s
  ELSE Request(Request(s, "dp", "poll"), "sp", "poll")

\* GenvexDevice.poll up to its first await; without a model object the
\* first statement of the try block throws and the catch block runs at once
Poll(s) ==
  IF ~s.gConn \/ ~s.connected THEN s
  ELSE IF s.host.model = "undefined" THEN PollCatch(s)
  ELSE Request(s, "dp", "poll")

\* loops that notify for every value read, changed or not
RECURSIVE CacheResultsAlwaysEmit(_, _, _, _)
CacheResultsAlwaysEmit(s, kind, result, i) ==
  LET keys == IF kind = "dp" THEN DatapointKeys ELSE SetpointKeys
      registers == IF kind = "dp" THEN Optima251Datapoints
                   ELSE Optima251Setpoints
  IN  IF i > Len(keys) THEN s
      ELSE IF keys[i] \notin DOMAIN result \/ keys[i] \notin DOMAIN registers
      THEN CacheResultsAlwaysEmit(s, kind, result, i + 1)
      ELSE LET register == registers[keys[i]]
               value == IF kind = "dp"
                        THEN ConvertDatapointValue(result[keys[i]], register)
                        ELSE ConvertSetpointValue(result[keys[i]], register)
               s1 == [s EXCEPT !.data[register.name] = value]
           IN  CacheResultsAlwaysEmit(EmitG(s1, "data"), kind, result, i + 1)

\* The loops of poll() over the results of a read: cache the converted value
\* under the register's name and emit data when it differs from the old one.
RECURSIVE CacheResults(_, _, _, _)
CacheResults(s, kind, result, i) ==
  LET keys == IF kind = "dp" THEN DatapointKeys ELSE SetpointKeys
      registers == IF kind = "dp" THEN Optima251Datapoints
                   ELSE Optima251Setpoints
  IN  IF i > Len(keys) THEN s
      ELSE IF keys[i] \notin DOMAIN result \/ keys[i] \notin DOMAIN registers
      THEN CacheResults(s, kind, result, i + 1)
      ELSE LET register == registers[keys[i]]
               value == IF kind = "dp"
                        THEN ConvertDatapointValue(result[keys[i]], register)
                        ELSE ConvertSetpointValue(result[keys[i]], register)
               oldValue == s.data[register.name]
               s1 == [s EXCEPT !.data[register.name] = value]
               s2 == IF oldValue # value THEN EmitG(s1, "data") ELSE s1
           IN  CacheResults(s2, kind, result, i + 1)

\* GenvexDevice.poll after the datapoint read resolved with result
PollCacheDatapoints(s, result) == CacheResults(s, "dp", result, 1)

\* GenvexDevice.poll after the setpoint read resolved with result
PollCacheSetpoints(s, result) == CacheResults(s, "sp", result, 1)

\* a poll that reports success as soon as the datapoints have arrived
PollReadSetpointsEarlyPolled(s) ==
  LET s1 == EmitG([s EXCEPT !.consecutiveErrors = 0], "polled") IN
  IF ~s1.gConn THEN RejectSync(s1, "poll") ELSE Request(s1, "sp", "poll")

\* GenvexDevice.poll after the datapoint read resolved: the setpoint read
PollReadSetpoints(s) ==
  IF ~s.gConn THEN RejectSync(s, "poll") ELSE Request(s, "sp", "poll")

\* GenvexDevice.poll after both reads resolved
PollFinish(s) == EmitG([s EXCEPT !.consecutiveErrors = 0], "polled")

\* GenvexDevice.startPolling
StartPolling(s) == [Poll(StopPolling(s)) EXCEPT !.pollTimer = TRUE]

\* GenvexDevice.connect after client.connect() resolved
GConnectResume(s) ==
  EmitG(StartPolling([s EXCEPT !.gConn = TRUE, !.listeners = TRUE]),
        "connected")

\* GenvexDevice.connect, the catch block
GConnectCatch(s) ==
  HostConnectFailed(EmitG(MarkFailure(s, "connect"), "error"))

\* a setValue that writes whatever it is given, without the range check
SetValueUnchecked(s, name, value) ==
  LET register == GetSetpointByName(name) IN
  IF register.name = "" THEN [s EXCEPT !.last.result = "UnknownSetpoint"]
  ELSE IF ~s.gConn THEN [s EXCEPT !.last.result = "typeError"]
  ELSE LET rawValue == ToRawSetpointValue(value, register)
           r == RequestWith(s, "wr", "setValue",
                            <<[id |-> 0, value |-> rawValue,
                               param |-> register.writeAddress]>>)
       IN  IF r.last.req.result = "pending"
           THEN [r EXCEPT !.reqs[Len(r.reqs)].frame =
                             [name |-> name, value |-> value]]
           ELSE r

\* a setValue that caches and notifies before the write is acknowledged
SetValueEager(s, name, value) ==
  LET register == GetSetpointByName(name)
      rawValue == ToRawSetpointValue(value, register)
  IN  IF register.name = "" THEN [s EXCEPT !.last.result = "UnknownSetpoint"]
      ELSE IF rawValue < register.min \/ rawValue > register.max
      THEN [s EXCEPT !.last.result = "OutOfRange"]
      ELSE IF ~s.gConn THEN [s EXCEPT !.last.result = "typeError"]
      ELSE LET s1 == EmitG([s EXCEPT !.data[name] = value], "data")
               r == RequestWith(s1, "wr", "setValue",
                                <<[id |-> 0, value |-> rawValue,
                                   param |-> register.writeAddress]>>)
           IN  IF r.last.req.result = "pending"
               THEN [r EXCEPT !.reqs[Len(r.reqs)].frame =
                                 [name |-> name, value |-> value]]
               ELSE r

\* GenvexDevice.setValue(name, value) up to its await: the lookup, the
\* conversion, the range check, then writeSetpoints with one entry; the
\* frame of the call keeps name and value for the continuation
SetValue(s, name, value) ==
  LET register == GetSetpointByName(name) IN
  IF s.host.model = "undefined" THEN [s EXCEPT !.last.result = "typeError"]
  ELSE IF register.name = "" THEN [s EXCEPT !.last.result = "UnknownSetpoint"]
  ELSE LET rawValue == ToRawSetpointValue(value, register) IN
       IF rawValue < register.min THEN [s EXCEPT !.last.result = "OutOfRange"]
       ELSE IF rawValue > register.max
       THEN [s EXCEPT !.last.result = "OutOfRange"]
       ELSE IF ~s.gConn THEN [s EXCEPT !.last.result = "typeError"]
       ELSE LET r == RequestWith(s, "wr", "setValue",
                                 <<[id |-> 0, value |-> rawValue,
                                    param |-> register.writeAddress]>>)
            IN  IF r.last.req.result = "pending"
                THEN [r EXCEPT !.reqs[Len(r.reqs)].frame =
                                  [name |-> name, value |-> value]]
                ELSE r

\* GenvexDevice.setValue after the write of request rid resolved: cache the
\* display value under the name given and emit data
SetValueFinish(s, rid) ==
  EmitG([s EXCEPT !.data[s.reqs[rid].frame.name] = s.reqs[rid].frame.value],
        "data")

----------------------------------------------------------------------------
(* Promise continuations *)

Continue(s, task) ==
  CASE task.t = "connectResolved" -> GConnectResume(s)
    [] task.t = "connectRejected" -> GConnectCatch(s)
    [] task.t = "resolved" /\ task.owner = "poll" ->
         IF s.reqs[task.rid].kind = "dp"
         THEN PollReadSetpoints(PollCacheDatapoints(s, s.reqs[task.rid].value))
         ELSE PollFinish(PollCacheSetpoints(s, s.reqs[task.rid].value))
    [] task.t = "resolved" /\ task.owner = "setValue" ->
         SetValueFinish(s, task.rid)
    [] task.t \in {"timeout", "failed"} /\ task.owner = "poll" -> PollCatch(s)
    [] OTHER -> s

RECURSIVE RunMicro(_)
RunMicro(s) ==
  IF s.micro = <<>> THEN s
  ELSE RunMicro(Continue([s EXCEPT !.micro = Tail(@)], Head(s.micro)))

\* A handler that returned without changing, emitting, sending, settling or
\* throwing anything: such a step is a stuttering step.
Quiet(r) ==
  /\ [r EXCEPT !.last = last] = Cur
  /\ r.last.result = "" /\ r.last.req = NoReq /\ r.last.failure = "none"
  /\ r.last.sEmit = NoEmitS /\ r.last.gEmit = NoEmitG
  /\ r.last.sent = <<>> /\ r.last.settled = {} /\ r.last.disc = 0

\* the U_CONNECT packets among the packets a step has sent
ConnectPackets(sent) ==
  Cardinality({i \in DOMAIN sent : sent[i].t = "U_CONNECT"})

\* The record of a connect(), kept when the initial state asks for one: the
\* U_CONNECT packets sent so far, and whether the session has been connected,
\* disconnect() has been called, the deadline timer has fired.
Watch(r) ==
  IF call.fn # "connect" THEN call
  ELSE [call EXCEPT !.sent = @ + ConnectPackets(r.last.sent),
                    !.connected = @ \/ r.connected,
                    !.disconnected = @ \/ r.last.disc > 0,
                    !.deadline = @ \/ r.last.op = "connectTimeout"]

\* One event-loop step: the handler's result, then the microtasks, within
\* the bounds of the model.
Step(s) ==
  \E r \in {RunMicro(s)} :
    /\ Len(r.reqs) <= MaxReq
    /\ r.kaTicks <= MaxKeepAlive
    /\ r.seqId <= MaxUInt16 + MaxOverflow
    /\ \E c \in {IF Quiet(r) THEN Cur ELSE r} : Commit(c)
    /\ call' = IF Quiet(r) THEN call ELSE Watch(r)

----------------------------------------------------------------------------
(* Inbound datagrams and the parsers of NabtoPacket *)

\* A datagram: its length, the header fields, for U_CONNECT the status and
\* server nonce, for DATA the first payload's type and declared length, the
\* crypto code (cleartext unless said otherwise) and the bytes that follow
\* the 6-byte CRYPT payload header.
Msg(type, len, resp, tag, seq, status, sid, ptype, plen, cmd) ==
  [type |-> type, len |-> len, resp |-> resp, tag |-> tag, seq |-> seq,
   status |-> status, sid |-> sid, ptype |-> ptype, plen |-> plen,
   crypto |-> CRYPTO_CLEARTEXT, cmd |-> cmd]

\* the same datagram with a crypto code that is not cleartext
Encrypted(m) == [m EXCEPT !.crypto = CRYPTO_CLEARTEXT + 1]

Null == [t |-> "null"]

Throws == [t |-> "throws"]

\* a parser that does not look at the status word
ParseConnectResponseAnyStatus(m) ==
  IF m.len < ConnectRespMinLen THEN Null
  ELSE IF m.type # "U_CONNECT" THEN Null
  ELSE IF ~m.resp THEN Null
  ELSE [t |-> "ok", serverId |-> m.sid]

\* NabtoPacket.parseConnectResponse
ParseConnectResponse(m) ==
  IF m.len < ConnectRespMinLen THEN Null
  ELSE IF m.type # "U_CONNECT" THEN Null
  ELSE IF ~m.resp THEN Null
  ELSE IF m.status # StatusOk THEN Null
  ELSE [t |-> "ok", serverId |-> m.sid]

\* NabtoPacket.parseDataResponse; readUInt16BE(offset + 2) throws when the
\* datagram ends before offset + 4
ParseDataResponse(m) ==
  LET offset == IF m.tag THEN HDR_SIZE + 2 ELSE HDR_SIZE
      cmdStart == offset + 6
      cmdEnd == Min(offset + 4 + m.plen, m.len)
  IN  IF m.len < HDR_SIZE THEN Null
      ELSE IF m.type # "DATA" THEN Null
      ELSE IF offset >= m.len THEN Null
      ELSE IF m.ptype # PAYLOAD_CRYPT THEN Null
      ELSE IF offset + 4 > m.len THEN Throws
      ELSE IF cmdStart >= m.len \/ cmdEnd <= cmdStart THEN Null
      ELSE [t |-> "ok", seqId |-> m.seq,
            commandData |-> SubSeq(m.cmd, 1, cmdEnd - cmdStart)]

\* readUInt32BE(off) of a byte sequence (off counted from 0)
U32(b, off) ==
  ((b[off + 1] * 256 + b[off + 2]) * 256 + b[off + 3]) * 256 + b[off + 4]

\* NabtoPacket.parsePingResponse
ParsePingResponse(payload) ==
  IF Len(payload) < 4 THEN Null
  ELSE [t |-> "ok",
        deviceNumber |-> U32(payload, 0),
        deviceModel |-> IF Len(payload) >= 8 THEN U32(payload, 4) ELSE 0,
        slaveDeviceNumber |-> IF Len(payload) >= 16 THEN U32(payload, 12)
                              ELSE 0,
        slaveDeviceModel |-> IF Len(payload) >= 20 THEN U32(payload, 16)
                             ELSE 0]

\* The datagrams the network can deliver.
\* U_CONNECT responses that establish the session, and those that must not:
\* too short, without the RESPONSE flag, with a status other than 1.
ConnectMsgs ==
  {Msg("U_CONNECT", ConnectRespMinLen, TRUE, FALSE, 0, StatusOk, sid, 0, 0,
       <<>>) : sid \in ServerIds}
  \cup {Msg("U_CONNECT", ConnectRespMinLen - 1, TRUE, FALSE, 0, StatusOk, 12,
            0, 0, <<>>),
        Msg("U_CONNECT", ConnectRespMinLen, FALSE, FALSE, 0, StatusOk, 12, 0,
            0, <<>>),
        Msg("U_CONNECT", ConnectRespMinLen, TRUE, FALSE, 0, 2, 12, 0, 0,
            <<>>)}

\* Well-formed DATA datagrams for the given sequence numbers, and malformed
\* ones: a payload that is no CRYPT payload, a bare header, and a datagram
\* cut inside the CRYPT payload header.
GoodData(q, cmd) ==
  Msg("DATA", HDR_SIZE + 6 + Len(cmd), TRUE, FALSE, q, 0, 0, PAYLOAD_CRYPT,
      2 + Len(cmd), cmd)

\* the two bytes of a 16-bit value, big-endian
Bytes16(v) == <<(v \div 256) % 256, v % 256>>

\* The command bytes of the device's reply to the request sent with sequence
\* number q: the value list of a read (datapoints: count, values; setpoints:
\* one byte, count, values), the ping reply otherwise.
ReplyTo(q) ==
  LET kinds == {reqs[i].kind : i \in {j \in DOMAIN reqs : reqs[j].seq = q}} IN
  IF "dp" \in kinds THEN <<0, 1>> \o Bytes16(DeviceTemp)
  ELSE IF "sp" \in kinds THEN <<0, 0, 1>> \o Bytes16(DeviceFan)
  ELSE <<0, 0, 0, 7>>

DataMsgs(seqs) ==
  {GoodData(q, ReplyTo(q)) : q \in seqs}
    \cup {GoodData(PingSeq, <<0, 1>>)}

\* DATA datagrams that declare an encrypted CRYPT payload: replies to the
\* pending requests and to the ping
EncryptedMsgs(seqs) == {Encrypted(GoodData(q, ReplyTo(q))) : q \in seqs}

BadDataMsgs(seqs) ==
  {Msg("DATA", HDR_SIZE + 6 + 2, TRUE, FALSE, q, 0, 0, PAYLOAD_IPX, 4,
       <<0, 1>>) : q \in seqs}
  \cup {Msg("DATA", len, TRUE, FALSE, q, 0, 0, PAYLOAD_CRYPT, 0, <<>>) :
          q \in seqs, len \in {HDR_SIZE, HDR_SIZE + 2}}

OtherMsgs ==
  {Msg("U_ALIVE", HDR_SIZE, TRUE, FALSE, 0, 0, 0, 0, 0, <<>>),
   Msg("DATA", 8, TRUE, FALSE, 0, 0, 0, 0, 0, <<>>)}

\* Sequence numbers a DATA datagram can carry: the pings', those of the
\* requests made so far (replies, late or duplicated), and one not yet used.
DataSeqs ==
  {PingSeq, KeepAliveLo, seqId % (MaxUInt16 + 1)}
    \cup {reqs[i].seq % (MaxUInt16 + 1) : i \in DOMAIN reqs}

Messages ==
  ConnectMsgs \cup DataMsgs(DataSeqs) \cup BadDataMsgs(DOMAIN pendingRequests)
    \cup EncryptedMsgs(DOMAIN pendingRequests \cup {PingSeq}) \cup OtherMsgs

----------------------------------------------------------------------------
(* NabtoConnection: the handlers *)

\* _handleMessage, the U_CONNECT response branch
OnConnectResponse(s, m) ==
  LET resp == ParseConnectResponse(m) IN
  IF resp.t = "ok"
  THEN LET s1 == [s EXCEPT !.serverId = resp.serverId, !.connected = TRUE]
           s2 == StartKeepAlive(s1)
           s3 == EmitS(s2, "connected")
       IN  SendPing(s3)
  ELSE s

\* _handleMessage, the DATA branch
OnData(s, m) ==
  LET parsed == ParseDataResponse(m) IN
  IF parsed.t = "throws" THEN [s EXCEPT !.last.result = "throws"]
  ELSE IF parsed.t = "null" THEN s
  ELSE IF parsed.seqId = PingSeq
          \/ (parsed.seqId >= KeepAliveLo /\ parsed.seqId < KeepAliveHi)
  THEN IF parsed.seqId = PingSeq
       THEN LET pingResult == ParsePingResponse(parsed.commandData) IN
            IF pingResult.t = "ok"
            THEN EmitS([s EXCEPT !.modelInfo = pingResult], "model")
            ELSE s
       ELSE s
  ELSE EmitS(ResolvePending([s EXCEPT !.last.arg = parsed.seqId,
                                      !.last.result =
                                        IF parsed.seqId
                                             \in DOMAIN s.pendingRequests
                                        THEN "hit" ELSE "miss"],
                            parsed.seqId, parsed.commandData), "data")

\* NabtoConnection._handleMessage
HandleMessage(s, m) ==
  IF m.len < HDR_SIZE THEN s
  ELSE IF m.type = "U_CONNECT" /\ m.resp THEN OnConnectResponse(s, m)
  ELSE IF m.type = "DATA" THEN OnData(s, m)
  ELSE s

\* an interval callback that advances the counter but sends nothing
OnKeepAliveSilent(s) ==
  IF ~s.connected \/ s.socket = "null" THEN s
  ELSE LET next == s.keepAliveSeq + 1 IN
       [s EXCEPT !.keepAliveSeq = IF next >= KeepAliveHi THEN KeepAliveLo
                                  ELSE next,
                 !.kaTicks = @ + 1]

\* the keep-alive interval callback of _startKeepAlive
OnKeepAlive(s) ==
  IF ~s.connected \/ s.socket = "null" THEN s
  ELSE LET next == s.keepAliveSeq + 1
           s1 == [s EXCEPT !.keepAliveSeq = IF next >= KeepAliveHi
                                            THEN KeepAliveLo ELSE next,
                           !.kaTicks = @ + 1]
       IN  Send(s1, BuildPingPacket)

\* the socket 'error' handler of connect(): the reject is not reached when
\* the emitter throws
OnSocketError(s) ==
  LET s0 == IF s.connPromise = "resolved" THEN MarkFailure(s, "socket") ELSE s
      s1 == EmitS([s0 EXCEPT !.connected = FALSE], "error")
  IN  IF s.listeners THEN RejectConnect(s1) ELSE s1

\* the socket 'close' handler of connect()
OnSocketClose(s) ==
  EmitS([s EXCEPT !.connected = FALSE, !.closeEvt = FALSE], "disconnected")

\* the socket.bind callback of connect()
OnBind(s) ==
  LET s1 == SendConnectPacket([s EXCEPT !.bindDone = TRUE]) IN
  [s1 EXCEPT !.retryTimers = connectRetries - 1, !.connTimeout = TRUE,
             !.onceConnected = TRUE]

\* a retransmission timer of connect()
OnRetryTimer(s) == SendConnectPacket([s EXCEPT !.retryTimers = @ - 1])

\* the deadline timer of connect()
OnConnectTimeout(s) ==
  LET s0 == [s EXCEPT !.connTimeout = FALSE] IN
  IF ~s0.connected
  THEN RejectConnect(SDisconnect([s0 EXCEPT !.retryTimers = 0]))
  ELSE s0

\* GenvexDevice.connect up to its await: NabtoClient.connect creates the
\* session, NabtoConnection.connect creates the socket and binds it
GConnectStart(s) ==
  [s EXCEPT !.clientConn = TRUE, !.socket = "open", !.connPromise = "pending"]

----------------------------------------------------------------------------
(* NabtoDiscovery.discover: broadcast discovery *)

\* A datagram on the discovery socket: its length, its header word, the
\* device id at offset 19, and the sender (rinfo.address, rinfo.port).
DiscMsg(len, word, id, ip, port) ==
  [len |-> len, word |-> word, id |-> id, ip |-> ip, port |-> port]

\* Responses of two devices, and datagrams that are no valid response: too
\* short, without the RSP flag, with an empty device id.
DiscMsgs ==
  {DiscMsg(DiscoveryRespMinLen + 8, DiscoveryRspWord, "dev1", "10.0.0.1", 5570),
   DiscMsg(DiscoveryRespMinLen + 8, DiscoveryRspWord, "dev2", "10.0.0.2", 5570),
   DiscMsg(DiscoveryRespMinLen - 1, DiscoveryRspWord, "", "10.0.0.1", 5570),
   DiscMsg(DiscoveryRespMinLen + 8, 1, "dev1", "10.0.0.1", 5570),
   DiscMsg(DiscoveryRespMinLen, DiscoveryRspWord, "", "10.0.0.2", 5570)}

\* NabtoPacket.parseDiscoveryResponse
ParseDiscoveryResponse(m) ==
  IF m.len < DiscoveryRespMinLen THEN Null
  ELSE IF m.word # DiscoveryRspWord THEN Null
  ELSE IF m.id = "" THEN Null
  ELSE [t |-> "ok", deviceId |-> m.id]

\* NabtoDiscovery.cleanup
DiscCleanup(d) == [d EXCEPT !.socket = "null"]

\* discover(): the socket is created and bound, the timeout timer is armed
DiscStart(d) ==
  [d EXCEPT !.socket = "open", !.promise = "pending", !.devices = <<>>,
            !.timeout = TRUE]

\* sendPacket of discover(): this.socket.send throws without a socket
DiscSendPacket(d) ==
  IF d.socket = "null" THEN [d EXCEPT !.thrown = TRUE]
  ELSE [d EXCEPT !.sent = @ + 1]

\* the bind callback of discover()
DiscOnBind(d) ==
  [DiscSendPacket([d EXCEPT !.bound = TRUE]) EXCEPT
     !.retryTimers = DiscoveryRetries - 1]

\* a retransmission timer of discover()
DiscOnRetry(d) == DiscSendPacket([d EXCEPT !.retryTimers = @ - 1])

\* the 'message' handler of discover()
DiscOnMessage(d, m) ==
  LET parsed == ParseDiscoveryResponse(m) IN
  IF parsed.t = "ok"
  THEN LET device == [deviceId |-> parsed.deviceId, ip |-> m.ip,
                      port |-> m.port]
       IN  [d EXCEPT !.devices = Append(@, device),
                     !.answered = @ \cup {device},
                     !.emitted = @ + 1]
  ELSE d

\* the timeout timer of discover(): cleanup, resolve(devices)
DiscOnTimeout(d) ==
  LET d1 == DiscCleanup([d EXCEPT !.timeout = FALSE]) IN
  IF d1.promise = "pending"
  THEN [d1 EXCEPT !.promise = "resolved", !.result = d1.devices]
  ELSE d1

\* the socket 'error' handler of discover(): cleanup, reject(err)
DiscOnError(d) ==
  LET d1 == DiscCleanup(d) IN
  IF d1.promise = "pending" THEN [d1 EXCEPT !.promise = "rejected"] ELSE d1

\* The host calls discover() once.
Discover ==
  /\ disc.promise = "none"
  /\ disc' = DiscStart(disc)
  /\ UNCHANGED <<sessionVars, call>>

DiscBind ==
  /\ disc.socket = "open" /\ ~disc.bound
  /\ disc' = DiscOnBind(disc)
  /\ UNCHANGED <<sessionVars, call>>

DiscRetry ==
  /\ disc.retryTimers > 0
  /\ disc' = DiscOnRetry(disc)
  /\ UNCHANGED <<sessionVars, call>>

DiscReceive ==
  /\ disc.socket = "open" /\ disc.bound
  /\ \E m \in DiscMsgs :
       /\ disc' = DiscOnMessage(disc, m)
       /\ Len(disc'.devices) <= MaxResponses
  /\ UNCHANGED <<sessionVars, call>>

DiscTimeout ==
  /\ disc.timeout
  /\ disc' = DiscOnTimeout(disc)
  /\ UNCHANGED <<sessionVars, call>>

DiscError ==
  /\ disc.socket = "open"
  /\ disc' = DiscOnError(disc)
  /\ UNCHANGED <<sessionVars, call>>

----------------------------------------------------------------------------
(* Calls of the pure functions: the arguments are drawn by the initial     *)
(* state, the action applies the function.                                 *)

\* the first keys of the datapoint catalog, in Object.entries order
CatalogKeys == <<"TEMP_SUPPLY", "TEMP_OUTSIDE", "TEMP_EXHAUST", "TEMP_EXTRACT">>

\* 16-bit values a response can carry: a small one, and one with the sign bit
Words == {1, 65535}

WordSeqs == UNION {[1..n -> Words] : n \in 0..MaxValues}

RECURSIVE WordBytes(_)
WordBytes(ws) ==
  IF ws = <<>> THEN <<>> ELSE Bytes16(Head(ws)) \o WordBytes(Tail(ws))

\* The command bytes of a value-list response: count, then the values; a
\* setpoint response starts with one byte more; trail is what follows.
ValueListPayload(kind, count, ws, trail) ==
  (IF kind = "sp" THEN <<0>> ELSE <<>>) \o Bytes16(count) \o WordBytes(ws)
    \o trail

\* readDatapoints / readSetpoints called with a key list, answered by a
\* response that declares count values and carries the values ws
ReadCalls ==
  [fn : {"read"}, kind : {"dp", "sp"},
   keys : {SubSeq(CatalogKeys, 1, n) : n \in 0..MaxKeys},
   count : 0..MaxValues, ws : WordSeqs, trail : {<<>>, <<9>>},
   done : {FALSE}, ret : {<<>>}]

\* The setpoint descriptors of the two catalogs (Optima 251, Optima 270) by
\* divider and offset: every setpoint has 1 and 0 but TEMP_SETPOINT, which
\* has 10 and 100; and descriptors with a divider of 0, without an offset,
\* without a divider.
SetpointDescriptors ==
  {[divider |-> 1, offset |-> 0], [divider |-> 10, offset |-> 100],
   [divider |-> 0, offset |-> 100], [divider |-> 10], [offset |-> 100]}

\* toRawSetpointValue and then convertSetpointValue, for an integer v
RoundTripCalls ==
  [fn : {"roundTrip"}, register : SetpointDescriptors,
   v : (-MaxDisplay)..MaxDisplay, done : {FALSE}, ret : {Undefined}]

\* Buffer.writeUInt32BE: the four bytes of a 32-bit value, big-endian
Bytes32(v) ==
  <<(v \div 16777216) % 256, (v \div 65536) % 256, (v \div 256) % 256,
    v % 256>>

\* NabtoPacket.buildHeader: client id, server id, type, version, reserved,
\* flags, sequence number, total length
BuildHeader(clientId, srvId, type, flags, seq, totalLen) ==
  Bytes32(clientId) \o Bytes32(srvId) \o <<type, HDR_VERSION, 0, flags>>
    \o Bytes16(seq) \o Bytes16(totalLen)

\* NabtoPacket.buildCryptPayload: type, flags, length, crypto code, the
\* command, the terminator
BuildCryptPayload(commandData) ==
  <<PAYLOAD_CRYPT, 0>> \o Bytes16(9 + Len(commandData))
    \o Bytes16(CRYPTO_CLEARTEXT) \o commandData \o <<2>>

\* the loop of computeChecksum: the sum of all bytes (summed by halves, to
\* keep the evaluation shallow)
RECURSIVE SumBytes(_)
SumBytes(b) ==
  IF Len(b) = 0 THEN 0
  ELSE IF Len(b) = 1 THEN b[1]
  ELSE LET h == Len(b) \div 2 IN
       SumBytes(SubSeq(b, 1, h)) + SumBytes(SubSeq(b, h + 1, Len(b)))

\* a checksum that keeps the low byte of the sum only
ComputeChecksumLowByte(bytes) == Bytes16(SumBytes(bytes) % 256)

\* NabtoPacket.computeChecksum
ComputeChecksum(bytes) == Bytes16(SumBytes(bytes) % (MaxUInt16 + 1))

\* NabtoPacket._buildDataPacket; writeUInt16BE throws for a sequence number
\* or a length that does not fit 16 bits
BuildDataPacket(clientId, srvId, seq, commandData, isKeepAlive) ==
  LET crypt == BuildCryptPayload(commandData)
      flags == IF isKeepAlive THEN FLAG_TAG ELSE 0
      extra == IF isKeepAlive THEN <<0, 3>> ELSE <<>>
      payloadLen == Len(extra) + Len(crypt)
      totalLen == HDR_SIZE + payloadLen
      body == BuildHeader(clientId, srvId, TYPE_DATA, flags, seq,
                          totalLen + 2) \o extra \o crypt
  IN  IF ~BuildHeaderOk(seq) \/ totalLen + 2 > MaxUInt16 THEN Throws
      ELSE [t |-> "ok", bytes |-> body \o ComputeChecksum(body)]

\* the command of buildPingPacket: three zero bytes, CMD_PING, "ping"
PingCommand == <<0, 0, 0, CMD_PING, 112, 105, 110, 103>>

\* the entries of the three list commands: obj(1) + address(4), obj(1) +
\* address(2), id(1) + value(4) + param(2), concatenated in list order
RECURSIVE EntryBytes(_, _)
EntryBytes(kind, es) ==
  IF Len(es) = 0 THEN <<>>
  ELSE IF Len(es) = 1
  THEN LET e == es[1] IN
       CASE kind = "dp" -> <<e.obj>> \o Bytes32(e.address)
         [] kind = "sp" -> <<e.obj>> \o Bytes16(e.address)
         [] kind = "wr" -> <<e.id>> \o Bytes32(e.value) \o Bytes16(e.param)
  ELSE LET h == Len(es) \div 2 IN
       EntryBytes(kind, SubSeq(es, 1, h))
         \o EntryBytes(kind, SubSeq(es, h + 1, Len(es)))

\* the command of buildDatapointReadPacket, buildSetpointReadPacket and
\* buildSetpointWritePacket: command code, count, entries, terminator
ListCommand(kind, es) ==
  <<0, 0, 0, CASE kind = "dp" -> CMD_DATAPOINT_READLIST
               [] kind = "sp" -> CMD_SETPOINT_READLIST
               [] kind = "wr" -> CMD_SETPOINT_WRITELIST>>
    \o Bytes16(Len(es)) \o EntryBytes(kind, es) \o <<1>>

\* buildPingPacket and the three list builders, each ending in
\* _buildDataPacket; tag stands for a call of _buildDataPacket with
\* isKeepAlive
BuildPacket(kind, clientId, srvId, seq, es, tag) ==
  IF kind = "ping"
  THEN BuildDataPacket(clientId, srvId, IF tag THEN seq ELSE PingSeq,
                       PingCommand, tag)
  ELSE BuildDataPacket(clientId, srvId, seq, ListCommand(kind, es), tag)

\* list entries with small and with the largest field values
BuildEntries ==
  {[obj |-> 0, address |-> 1, id |-> 0, value |-> 3, param |-> 100],
   [obj |-> 255, address |-> 65535, id |-> 255, value |-> 2147483647,
    param |-> 65535]}

\* a builder called with ids, a sequence number (the last one does not fit
\* 16 bits) and a list of n equal entries
BuildCalls ==
  [fn : {"build"}, kind : {"ping", "dp", "sp", "wr"}, tag : BOOLEAN,
   clientId : {0, 2147483647}, srvId : ServerIds,
   seq : {SeqStart, MaxUInt16, MaxUInt16 + 1},
   n : {0, 1, MaxEntries}, e : BuildEntries, done : {FALSE}, ret : {Null}]

Calls == ReadCalls \cup RoundTripCalls \cup BuildCalls

ReadCall ==
  /\ call.fn = "read" /\ ~call.done
  /\ call' = [call EXCEPT
                !.done = TRUE,
                !.ret = ResolveRead(call.kind, call.keys,
                                    ValueListPayload(call.kind, call.count,
                                                     call.ws, call.trail))]
  /\ UNCHANGED others

RoundTripCall ==
  /\ call.fn = "roundTrip" /\ ~call.done
  /\ call' = [call EXCEPT
                !.done = TRUE,
                !.ret = ConvertSetpointValue(
                          ToRawSetpointValue(Quotient(call.v, 1),
                                             call.register),
                          call.register)]
  /\ UNCHANGED others

BuildCall ==
  /\ call.fn = "build" /\ ~call.done
  /\ call' = [call EXCEPT
                !.done = TRUE,
                !.ret = BuildPacket(call.kind, call.clientId, call.srvId,
                                    call.seq, [i \in 1..call.n |-> call.e],
                                    call.tag)]
  /\ UNCHANGED others

----------------------------------------------------------------------------
(* Actions: one per event-loop step *)

DeviceConnect ==
  /\ connPromise = "none"
  /\ Step(GConnectStart(Begin(Cur, "connect", -1)))

BindDone ==
  /\ socket = "open" /\ ~bindDone
  /\ Step(OnBind(Begin(Cur, "bind", -1)))

RetryTimer ==
  /\ retryTimers > 0
  /\ Step(OnRetryTimer(Begin(Cur, "retry", -1)))

ConnectTimeout ==
  /\ connTimeout
  /\ Step(OnConnectTimeout(Begin(Cur, "connectTimeout", -1)))

Receive ==
  /\ socket = "open" /\ bindDone
  /\ \E m \in Messages : Step(HandleMessage(Begin(Cur, m.type, -1), m))

KeepAlive ==
  /\ keepAliveTimer
  /\ Step(OnKeepAlive(Begin(Cur, "keepAlive", -1)))

RequestTimeout ==
  \E rid \in timeouts : Step(OnRequestTimeout(Begin(Cur, "timeout", rid), rid))

SocketError ==
  /\ socket = "open"
  /\ Step(OnSocketError(Begin(Cur, "socketError", -1)))

SocketClose ==
  /\ closeEvt
  /\ Step(OnSocketClose(Begin(Cur, "socketClose", -1)))

PollTimer ==
  /\ pollTimer
  /\ Step(Poll(Begin(Cur, "poll", -1)))

DeviceDisconnect == Step(GDisconnect(Begin(Cur, "disconnect", -1)))

\* _connect of both host classes: a new engine with the class's options and
\* the host's listeners, then genvex.connect()
HostConnect(s) ==
  GConnectStart([HostClearReconnect(s) EXCEPT !.host.genvex = TRUE,
                                              !.host.attempts = @ + 1])

\* onDeleted and onUninit; only Optima251Device sets _destroyed
HostOnDeleted(s) ==
  LET s1 == HostClearReconnect(
              [s EXCEPT !.host.deleted = TRUE,
                        !.host.destroyed = (s.host.class = "Optima251Device")])
  IN  IF s1.host.genvex
      THEN [GDisconnect(s1) EXCEPT !.host.genvex = FALSE]
      ELSE s1

\* The reconnect timer fires and calls _connect.  The engine that call
\* creates is not followed: the model stays with the first engine, whose
\* listeners still reach the host.
HostOnReconnectTimer(s) ==
  [HostClearReconnect(s) EXCEPT !.host.genvex = TRUE,
                                !.host.attempts = @ + 1,
                                !.last.result = "reconnect"]

\* onInit ends by calling _connect
HostInit ==
  /\ host.class # "none" /\ host.attempts = 0
  /\ Step(HostConnect(Begin(Cur, "onInit", -1)))

\* Homey deletes or unloads the device while this.genvex is the first engine
HostDeleted ==
  /\ host.class # "none" /\ host.attempts = 1 /\ ~host.deleted
  /\ Step(HostOnDeleted(Begin(Cur, "onDeleted", -1)))

HostReconnect ==
  /\ host.reconnectTimer /\ host.attempts < MaxAttempts
  /\ Step(HostOnReconnectTimer(Begin(Cur, "reconnect", -1)))

\* the host sets the fan stage
DeviceSetValue ==
  Step(SetValue(Begin(Cur, "setValue", -1), FAN_SPEED.name,
                Quotient(SetFan, 1)))

\* The names and values the host may pass to setValue: a setpoint and a name
\* that is no setpoint; values in range (one of them not an integer), above
\* the maximum and below the minimum.
SetValueNames == {FAN_SPEED.name, TEMP_SUPPLY.name}

SetValueValues ==
  {Quotient(SetFan, 1), Quotient(5, 2), Quotient(FAN_SPEED.max + 1, 1),
   Quotient(FAN_SPEED.min - 1, 1)}

DeviceSetValueAny ==
  \E name \in SetValueNames, value \in SetValueValues :
    Step(SetValue(Begin(Cur, "setValue", -1), name, value))

----------------------------------------------------------------------------
(* Specifications *)

\* The state after new GenvexDevice(options): no session yet.  The fields of
\* the session are those the NabtoConnection constructor sets.
\* a new engine, its session not yet created, owned by host h
InitEngine(h) ==
  /\ socket = "null"
  /\ connected = FALSE
  /\ serverId = 0
  /\ seqId = SeqStart
  /\ keepAliveSeq = KeepAliveLo
  /\ keepAliveTimer = FALSE
  /\ pendingRequests = EmptyTable
  /\ modelInfo = Null
  /\ bindDone = FALSE
  /\ onceConnected = FALSE
  /\ connPromise = "none"
  /\ retryTimers = 0
  /\ connTimeout = FALSE
  /\ timeouts = {}
  /\ closeEvt = FALSE
  /\ clientConn = FALSE
  /\ gConn = FALSE
  /\ listeners = FALSE
  /\ pollTimer = FALSE
  /\ consecutiveErrors = 0
  /\ reqs = <<>>
  /\ data = EmptyCache
  /\ kaTicks = 0
  /\ last = NoLast
  /\ host = h

InitSession == InitEngine(NoHost)

\* No discovery running, no function called.
Init == InitSession /\ disc = NoDisc /\ call = NoCall

Established ==
  \/ Receive
  \/ KeepAlive
  \/ RequestTimeout
  \/ SocketError
  \/ SocketClose
  \/ PollTimer
  \/ DeviceDisconnect
  \/ DeviceSetValue

Next ==
  \/ DeviceConnect
  \/ BindDone
  \/ RetryTimer
  \/ ConnectTimeout
  \/ Established

Spec == Init /\ [][Next]_vars

\* The event loop runs every armed timer callback and delivers every queued
\* socket event; datagrams may be lost and the host may never call.
Fairness ==
  /\ WF_vars(BindDone)
  /\ WF_vars(RetryTimer)
  /\ WF_vars(ConnectTimeout)
  /\ WF_vars(KeepAlive)
  /\ WF_vars(RequestTimeout)
  /\ WF_vars(SocketClose)
  /\ WF_vars(PollTimer)

FairSpec == Spec /\ Fairness

\* An established, idle session that has completed its polls so far, with
\* the sequence counter at seq and the request futures rs.
InitEstablished(seq, rs) ==
  /\ socket = "open"
  /\ connected = TRUE
  /\ serverId = 11
  /\ seqId = seq
  /\ keepAliveSeq = KeepAliveLo
  /\ keepAliveTimer = TRUE
  /\ pendingRequests = EmptyTable
  /\ modelInfo = Null
  /\ bindDone = TRUE
  /\ onceConnected = FALSE
  /\ connPromise = "resolved"
  /\ retryTimers = 0
  /\ connTimeout = FALSE
  /\ timeouts = {}
  /\ closeEvt = FALSE
  /\ clientConn = TRUE
  /\ gConn = TRUE
  /\ listeners = TRUE
  /\ pollTimer = TRUE
  /\ consecutiveErrors = 0
  /\ reqs = rs
  /\ data = [EmptyCache EXCEPT
               ![TEMP_SUPPLY.name] = ConvertDatapointValue(DeviceTemp,
                                                           TEMP_SUPPLY),
               ![FAN_SPEED.name] = ConvertSetpointValue(DeviceFan, FAN_SPEED)]
  /\ kaTicks = 0
  /\ last = NoLast
  /\ host = NoHost
  /\ disc = NoDisc
  /\ call = NoCall

\* A session that has been polling for days: the sequence counter is
\* WrapMargin requests away from the end of the 16-bit range.
InitWrap == InitEstablished(MaxUInt16 + 1 - WrapMargin, <<>>)

SpecWrap == InitWrap /\ [][Established]_vars

\* The two reads of the first poll, resolved.
FirstPoll ==
  <<[kind |-> "dp", owner |-> "poll", seq |-> SeqStart, settles |-> 1,
     outcome |-> "resolved",
     value |-> [k \in {DatapointKeys[1]} |-> DeviceTemp], frame |-> NoFrame],
    [kind |-> "sp", owner |-> "poll", seq |-> SeqStart + 1, settles |-> 1,
     outcome |-> "resolved",
     value |-> [k \in {SetpointKeys[1]} |-> DeviceFan], frame |-> NoFrame]>>

\* The engine after its first poll, with a host that passes any name and
\* value to setValue.
InitSet == InitEstablished(SeqStart + 2, FirstPoll)

NextSet ==
  \/ Established
  \/ DeviceSetValueAny

SpecSet == InitSet /\ [][NextSet]_vars

\* The pure functions, each applied once to arguments drawn from Calls.
InitFn == InitSession /\ disc = NoDisc /\ call \in Calls

NextFn ==
  \/ ReadCall
  \/ RoundTripCall
  \/ BuildCall

SpecFn == InitFn /\ [][NextFn]_vars

\* The two host classes, before onInit.
Hosts ==
  {[NoHost EXCEPT !.class = "Optima251Device"],
   [NoHost EXCEPT !.class = "Optima270Device", !.model = "undefined"]}

InitHost ==
  /\ \E h \in Hosts : InitEngine(h)
  /\ disc = NoDisc /\ call = NoCall

\* A Homey device and its first engine: the engine is connected, polls and
\* is disconnected by the host only.
NextHost ==
  \/ HostInit
  \/ BindDone
  \/ RetryTimer
  \/ ConnectTimeout
  \/ Receive
  \/ KeepAlive
  \/ RequestTimeout
  \/ SocketError
  \/ SocketClose
  \/ PollTimer
  \/ HostDeleted
  \/ HostReconnect

SpecHost == InitHost /\ [][NextHost]_vars

\* Broadcast discovery, before any session exists.
NextDisc ==
  \/ Discover
  \/ DiscBind
  \/ DiscRetry
  \/ DiscReceive
  \/ DiscTimeout
  \/ DiscError

SpecDisc == Init /\ [][NextDisc]_vars

\* One connect() of the session, its U_CONNECT packets counted.
NoConnect ==
  [fn |-> "connect", sent |-> 0, connected |-> FALSE, disconnected |-> FALSE,
   deadline |-> FALSE]

InitConn == InitSession /\ disc = NoDisc /\ call = NoConnect

\* connect() until it has settled, and what can happen to the session and
\* its first poll afterwards; later polls, keep-alive pings and writes send
\* no U_CONNECT packet and arm no retransmission timer.
NextConn ==
  \/ DeviceConnect
  \/ BindDone
  \/ RetryTimer
  \/ ConnectTimeout
  \/ Receive
  \/ RequestTimeout
  \/ SocketError
  \/ SocketClose
  \/ DeviceDisconnect

SpecConn == InitConn /\ [][NextConn]_vars

----------------------------------------------------------------------------
(* Properties *)

\* C1: the future of every request is settled at most once, whatever the
\* order of responses (duplicated, reordered), timeouts and disconnect();
\* once it is settled, or dropped by disconnect(), no later step touches it.
C1_SettledAtMostOnce ==
  [][/\ \A r \in DOMAIN reqs' : reqs'[r].settles <= 1
     /\ \A r \in DOMAIN reqs :
          (\/ reqs[r].settles = 1
           \/ /\ reqs[r].settles = 0
              /\ r \notin timeouts
              /\ \A q \in DOMAIN pendingRequests : pendingRequests[q] # r)
            => reqs'[r] = reqs[r]]_vars

\* C1 witness: a duplicate of a response arrives after the request it
\* answers was resolved.
C1_Witness ==
  /\ last.op = "DATA" /\ last.result = "miss"
  /\ \E r \in DOMAIN reqs :
       reqs[r].seq = last.arg /\ reqs[r].outcome = "resolved"

\* C2: the pending-request table holds at most one request per sequence
\* number, and its entries are exactly the unsettled requests whose timeout
\* is armed: no entry outlives its timeout.
C2_TableMatchesTimers ==
  /\ \A q \in DOMAIN pendingRequests :
       LET r == pendingRequests[q] IN
         r \in timeouts /\ reqs[r].seq = q /\ reqs[r].settles = 0
  /\ \A r \in timeouts :
       /\ reqs[r].seq \in DOMAIN pendingRequests
       /\ pendingRequests[reqs[r].seq] = r

\* C2 witness: one request has timed out while another is still pending.
C2_Witness ==
  /\ pendingRequests # EmptyTable
  /\ \E r \in DOMAIN reqs : reqs[r].outcome = "timeout"

\* C3: the first user request carries sequence number 300, later ones carry
\* strictly larger numbers, none is 50 or in 100..199, and the packet sent
\* carries the number allocated.
C3_SequenceDiscipline ==
  /\ reqs # <<>> => reqs[1].seq = SeqStart
  /\ \A i, j \in DOMAIN reqs : i < j => reqs[i].seq < reqs[j].seq
  /\ \A i \in DOMAIN reqs :
       reqs[i].seq # PingSeq /\ reqs[i].seq \notin KeepAliveLo..(KeepAliveHi - 1)
  /\ \A i \in DOMAIN last.sent :
       last.sent[i].t \in Kinds => /\ last.sent[i].seq = last.req.seq
                                   /\ last.sent[i].seq = reqs[Len(reqs)].seq

\* C3 witness: a second request has just been sent.
C3_Witness ==
  /\ Len(reqs) >= 2 /\ last.req.result = "pending" /\ last.sent # <<>>

\* C4: every sequence number allocated to a user request is in 300..65535,
\* the request is built and sent, and the request after the one sent with
\* 65535 gets 300.
C4_WrapsTo300 ==
  last.req.result \in {"pending", "rangeError"} =>
    /\ last.req.seq \in SeqStart..MaxUInt16
    /\ last.req.result = "pending"
    /\ seqId \in SeqStart..MaxUInt16
    /\ last.req.seq = MaxUInt16 => seqId = SeqStart

\* C5: handling a DATA response whose sequence number has no pending entry
\* leaves the table, the timers, the sequence counter, serverId and the
\* connected flag unchanged and settles no future.
C5_UnmatchedResponseDropped ==
  [][(last'.op = "DATA" /\ last'.result = "miss") =>
       /\ UNCHANGED <<pendingRequests, timeouts, seqId, serverId, connected,
                      reqs>>
       /\ last'.settled = {}]_vars

\* C5 witness: the reply to a request that has timed out arrives while
\* another request is pending.
C5_Witness ==
  /\ last.op = "DATA" /\ last.result = "miss"
  /\ pendingRequests # EmptyTable
  /\ \E r \in DOMAIN reqs : reqs[r].seq = last.arg /\ reqs[r].outcome = "timeout"

\* C6: every request future is eventually settled, also one that was
\* awaiting its reply when disconnect() was called.
C6_EveryFutureSettles ==
  \A r \in 1..MaxReq :
    (r \in DOMAIN reqs) ~> (r \in DOMAIN reqs /\ reqs[r].settles >= 1)

\* C7: after NabtoConnection.disconnect() has run, from any session state,
\* the session is not connected, the socket is closed and released, the
\* keep-alive timer is stopped, the table is empty, no request timeout is
\* armed and disconnected was emitted.
C7_DisconnectPostcondition ==
  last.disc > 0 =>
    /\ ~connected
    /\ socket = "null"
    /\ ~keepAliveTimer
    /\ pendingRequests = EmptyTable
    /\ timeouts = {}
    /\ last.sEmit["disconnected"] >= last.disc

\* C7 witness: disconnect() was called on a session with a request in flight.
C7_Witness ==
  /\ last.op = "disconnect" /\ last.disc > 0
  /\ \E r \in DOMAIN reqs : reqs[r].settles = 0

\* C8: after the socket of an established session reported an error, error
\* was emitted, the session is not connected, its socket is closed and
\* released and the keep-alive timer is stopped.
C8_SocketErrorCloses ==
  (last.op = "socketError" /\ last.failure = "socket") =>
    /\ last.sEmit["error"] > 0
    /\ ~connected
    /\ socket = "null"
    /\ ~keepAliveTimer

\* C9: every session-wide failure (socket error on an established session,
\* failed connect, too many consecutive poll failures) makes the engine emit
\* error, and leads to the engine emitting disconnected.
C9_FailureNotifies ==
  /\ [](last.failure # "none" => last.gEmit["error"] > 0)
  /\ (last.failure # "none") ~> (last.gEmit["disconnected"] > 0)

\* C10: in every state in which the session is not connected, a call of
\* readDatapoints, readSetpoints or writeSetpoints is rejected at once and
\* changes nothing: no sequence number, no pending entry, no timeout, no packet.
C10_NotConnectedRejects ==
  /\ ~connected =>
       \A k \in Kinds, o \in Owners :
         LET r == Request(Begin(Cur, "call", -1), k, o) IN
           /\ r.last.req.result = "notConnected"
           /\ r.micro = <<[t |-> "failed", rid |-> 0, owner |-> o]>>
           /\ [r EXCEPT !.last = last, !.micro = <<>>] = Cur
           /\ r.last.sent = <<>> /\ r.last.settled = {}
  /\ last.req.result = "notConnected" =>
       /\ last.req.seq = -1
       /\ \A i \in DOMAIN last.sent : last.sent[i].t \notin Kinds

\* C10 witness: setValue called writeSetpoints on a session that is not
\* connected.
C10_Witness ==
  /\ last.op = "setValue" /\ last.req.result = "notConnected"
  /\ last.req.kind = "wr"

\* C11: when the 5 s timeout of a pending request fires, exactly that
\* request is rejected (ReadTimeout for a read, WriteTimeout for a write) and
\* its entry removed; every other entry and future, the connected flag, the
\* socket and the keep-alive timer are as before.  (The engine's escalation
\* after the third failed poll is its own decision, made after the rejection.)
C11_TimeoutFailsOnlyThatRequest ==
  /\ [](\A rid \in timeouts :
          LET r == OnRequestTimeout(Begin(Cur, "timeout", rid), rid)
              q == reqs[rid].seq
          IN  /\ r.reqs[rid].settles = 1 /\ r.reqs[rid].outcome = "timeout"
              /\ r.last.settled = {rid}
              /\ r.last.result = IF reqs[rid].kind = "wr" THEN "WriteTimeout"
                                 ELSE "ReadTimeout"
              /\ DOMAIN r.pendingRequests = DOMAIN pendingRequests \ {q}
              /\ \A p \in DOMAIN r.pendingRequests :
                   r.pendingRequests[p] = pendingRequests[p]
              /\ r.timeouts = timeouts \ {rid}
              /\ \A o \in DOMAIN reqs \ {rid} : r.reqs[o] = reqs[o]
              /\ r.connected = connected /\ r.socket = socket
              /\ r.keepAliveTimer = keepAliveTimer)
  /\ [][(last'.op = "timeout" /\ last'.failure = "none") =>
          /\ last'.settled = {last'.arg}
          /\ reqs'[last'.arg].outcome = "timeout"
          /\ DOMAIN pendingRequests' =
               DOMAIN pendingRequests \ {reqs[last'.arg].seq}
          /\ timeouts' = timeouts \ {last'.arg}
          /\ UNCHANGED <<connected, socket, keepAliveTimer, serverId>>]_vars

\* C11 witness: a request timed out while another is pending and the session
\* is connected.
C11_Witness ==
  /\ last.op = "timeout" /\ last.result \in {"ReadTimeout", "WriteTimeout"}
  /\ pendingRequests # EmptyTable /\ connected /\ keepAliveTimer

\* C12: a datagram makes the session connected, with serverId taken from it,
\* exactly when it is a U_CONNECT frame with the RESPONSE flag, at least 28
\* bytes long, whose status is 1; any other datagram changes neither the
\* connected flag nor serverId, and nothing but such a datagram does.
C12_ConnectedOnlyByValidResponse ==
  /\ []((socket = "open" /\ bindDone) =>
          \A m \in Messages :
            LET r == HandleMessage(Begin(Cur, m.type, -1), m) IN
            IF m.type = "U_CONNECT" /\ m.resp /\ m.len >= 28 /\ m.status = 1
            THEN r.connected /\ r.serverId = m.sid
            ELSE r.connected = connected /\ r.serverId = serverId)
  /\ [][((connected' /\ ~connected) \/ serverId' # serverId) =>
          /\ last'.op = "U_CONNECT" /\ connected'
          /\ serverId' \in ServerIds
          /\ last'.sEmit["connected"] = 1]_vars

\* C12 witness: the session has just been established by a response.
C12_Witness ==
  /\ last.op = "U_CONNECT" /\ connected /\ serverId \in ServerIds
  /\ last.sEmit["connected"] = 1 /\ connPromise = "resolved"

\* C13: the future of connect() always settles, and when the deadline
\* rejects it the session is not connected, has no socket and no keep-alive
\* timer.
C13_ConnectSettles ==
  /\ []((last.op = "connectTimeout" /\ connPromise = "rejected") =>
          (~connected /\ socket = "null" /\ ~keepAliveTimer))
  /\ (connPromise = "pending") ~> (connPromise \in {"resolved", "rejected"})

\* C14: a U_CONNECT response received while the session is connected is
\* ignored: serverId is unchanged, nothing is sent, connected is not emitted.
C14_DuplicateConnectIgnored ==
  [][(connected /\ last'.op = "U_CONNECT") =>
       /\ serverId' = serverId
       /\ last'.sent = <<>>
       /\ last'.sEmit["connected"] = 0]_vars

\* C15: every PING sent by the keep-alive timer carries a sequence number
\* in 100..199; 50 is used by the ping sent at establishment only.
C15_KeepAliveRing ==
  last.op = "keepAlive" =>
    \A i \in DOMAIN last.sent :
      /\ last.sent[i].seq \in KeepAliveLo..(KeepAliveHi - 1)
      /\ last.sent[i].seq # PingSeq

\* C16: the reply to a keep-alive PING (the DATA frame that carries the
\* sequence number of the PING the keep-alive timer sends) is swallowed: no
\* event, the stored model info and the pending table as before.
C16_KeepAliveReplySwallowed ==
  (connected /\ keepAliveTimer /\ socket = "open") =>
    LET tick == OnKeepAlive(Begin(Cur, "keepAlive", -1))
        ping == tick.last.sent[Len(tick.last.sent)]
        reply == GoodData(ping.seq, <<0, 0, 0, 7>>)
        r == HandleMessage(Begin(tick, "DATA", -1), reply)
    IN  /\ r.last.sEmit = NoEmitS
        /\ r.last.gEmit = NoEmitG
        /\ r.modelInfo = tick.modelInfo
        /\ r.pendingRequests = tick.pendingRequests

C18_PollFailureEscalation ==
  /\ consecutiveErrors \in 0..(maxConsecutiveErrors - 1)
  /\ LET r == PollCatch(Begin(Cur, "poll", -1)) IN
       IF consecutiveErrors + 1 >= 3
       THEN /\ r.consecutiveErrors = 0
            /\ r.last.gEmit["error"] >= 1
            /\ ~r.pollTimer /\ ~r.gConn /\ ~r.connected /\ r.socket = "null"
            /\ ~r.keepAliveTimer /\ r.last.gEmit["disconnected"] >= 1
       ELSE /\ r.consecutiveErrors = consecutiveErrors + 1
            /\ r.last.gEmit["error"] = 1
            /\ r.pollTimer = pollTimer /\ r.gConn = gConn
            /\ r.connected = connected /\ r.socket = socket
  /\ LET f == PollFinish(Begin(Cur, "poll", -1)) IN
       f.consecutiveErrors = 0 /\ f.last.gEmit["polled"] = 1
  /\ last.failure = "polls" =>
       /\ consecutiveErrors = 0
       /\ ~pollTimer /\ ~gConn /\ ~connected /\ socket = "null"
       /\ last.gEmit["error"] >= 1 /\ last.gEmit["disconnected"] >= 1
  /\ last.gEmit["polled"] > 0 => consecutiveErrors = 0

\* C18 witness: the third consecutive failed poll has made the engine
\* disconnect.
C18_Witness ==
  /\ last.failure = "polls" /\ consecutiveErrors = 0 /\ ~pollTimer
  /\ last.disc > 0

\* C19: when the third consecutive poll fails, the engine has emitted
\* exactly three error events for the three failures when it disconnects:
\* one for each of the two counted failures and one in the escalating step.
C19_ThreeErrorEvents ==
  [][last'.failure = "polls" =>
       consecutiveErrors + last'.gEmit["error"] = maxConsecutiveErrors]_vars

\* C20: the cached values are left unchanged by the catch block of a poll,
\* by the escalation and by disconnect(): every step that is a request
\* timeout or a disconnect leaves getValue(name) as it was for every name.
C20_CacheRetained ==
  /\ [](/\ PollCatch(Begin(Cur, "poll", -1)).data = data
        /\ GDisconnect(Begin(Cur, "disconnect", -1)).data = data)
  /\ [][(\/ last'.op \in {"timeout", "disconnect", "socketError",
                           "socketClose"}
         \/ (last'.op = "poll"
               /\ last'.req.result \in {"notConnected", "rangeError"}))
          => \A n \in RegisterNames : data'[n] = data[n]]_vars

\* C20 witness: the engine has disconnected after the third failed poll with
\* a value in the cache.
C20_Witness ==
  /\ last.failure = "polls" /\ last.disc > 0
  /\ data[TEMP_SUPPLY.name] = [num |-> 20, den |-> 1]

\* C21: a step emits polled, once, and resets consecutiveErrors exactly when
\* the setpoint read of a poll resolves in it, and a poll makes its setpoint
\* read only after its datapoint read resolved; a step in which a read of a
\* poll times out or is refused emits no polled.
C21_PolledIffBothReads ==
  /\ [](LET sp == {i \in DOMAIN reqs :
                     reqs[i].kind = "sp" /\ reqs[i].owner = "poll"}
            dp == {j \in DOMAIN reqs :
                     /\ reqs[j].kind = "dp" /\ reqs[j].owner = "poll"
                     /\ reqs[j].outcome = "resolved"}
        IN  /\ Cardinality(sp) <= Cardinality(dp)
            /\ \A i \in sp : \E j \in dp : j < i)
  /\ [][LET done == {r \in last'.settled \cap DOMAIN reqs :
                       /\ reqs[r].settles = 0
                       /\ reqs'[r].outcome = "resolved"
                       /\ reqs[r].kind = "sp" /\ reqs[r].owner = "poll"}
        IN  /\ last'.gEmit["polled"] = Cardinality(done)
            /\ done # {} => consecutiveErrors' = 0
            /\ (last'.op = "timeout"
                  \/ last'.req.result \in {"notConnected", "rangeError"})
                 => last'.gEmit["polled"] = 0]_vars

\* C21 witness: a poll has completed (polled emitted, counter back to 0)
\* after an earlier poll failed by a read timeout.
C21_Witness ==
  /\ last.op = "DATA" /\ last.gEmit["polled"] = 1 /\ consecutiveErrors = 0
  /\ \E r \in DOMAIN reqs :
       reqs[r].owner = "poll" /\ reqs[r].outcome = "timeout"

\* C22: a poll that starts while the engine has no session or the session
\* is not connected does nothing: no request, no packet, no event, the
\* counter, the cache and the sequence counter as before.
C22_PollNotConnectedQuiet ==
  /\ []((~gConn \/ ~connected) =>
          LET b == Begin(Cur, "poll", -1)
              r == RunMicro(Poll(b))
          IN  /\ r = b
              /\ r.last.req = NoReq /\ r.last.sent = <<>>
              /\ r.last.gEmit = NoEmitG /\ r.last.sEmit = NoEmitS
              /\ r.consecutiveErrors = consecutiveErrors /\ r.data = data
              /\ r.seqId = seqId /\ r.reqs = reqs)
  /\ [][last'.op = "poll" => (gConn /\ connected)]_vars

\* C22 witness: the poll timer is armed on a session that a socket error
\* has left not connected, with values in the cache.
C22_Witness ==
  /\ pollTimer /\ gConn /\ ~connected /\ socket = "open"
  /\ data[TEMP_SUPPLY.name] # Undefined

\* C23 as amended: when a read of a poll resolves, the cache entry of every
\* register it returned is the converted value, no other entry changes, and
\* one data event is emitted for each entry whose value differs from the one
\* cached before; a result equal to the cached values emits no data event.
C23_CacheUpdatedNotifiedOnChange ==
  /\ [](\A kind \in {"dp", "sp"} :
          \A raw \in (IF kind = "dp" THEN {DeviceTemp, DeviceTemp + 1}
                      ELSE {DeviceFan, SetFan}) :
            LET key == IF kind = "dp" THEN DatapointKeys[1] ELSE SetpointKeys[1]
                register == IF kind = "dp" THEN Optima251Datapoints[key]
                            ELSE Optima251Setpoints[key]
                conv == [num |-> IF kind = "dp" THEN raw - 300 ELSE raw,
                         den |-> IF kind = "dp" THEN 10 ELSE 1]
                b == Begin(Cur, "DATA", -1)
                r == CacheResults(b, kind, [k \in {key} |-> raw], 1)
            IN  /\ \A n \in RegisterNames :
                     r.data[n] = IF n = register.name
                                 THEN Quotient(conv.num, conv.den) ELSE data[n]
                /\ r.last.gEmit["data"] =
                     IF data[register.name] = Quotient(conv.num, conv.den)
                     THEN 0 ELSE 1
                /\ [r EXCEPT !.data = data, !.last = b.last] = b)
  /\ [][\A rid \in last'.settled \cap DOMAIN reqs :
          (/\ reqs[rid].settles = 0 /\ reqs'[rid].outcome = "resolved"
           /\ reqs[rid].owner = "poll") =>
            LET dp == reqs[rid].kind = "dp"
                keys == IF dp THEN DatapointKeys ELSE SetpointKeys
                registers == IF dp THEN Optima251Datapoints
                             ELSE Optima251Setpoints
                result == reqs'[rid].value
                read == {registers[k].name : k \in DOMAIN result}
            IN  /\ \A i \in DOMAIN keys :
                     keys[i] \in DOMAIN result =>
                       data'[registers[keys[i]].name] =
                         Quotient(result[keys[i]] + registers[keys[i]].offset,
                                  registers[keys[i]].divider)
                /\ \A n \in RegisterNames \ read : data'[n] = data[n]
                /\ last'.gEmit["data"] =
                     Cardinality({n \in read : data'[n] # data[n]})]_vars

\* C23 witness: the datapoint read of a second poll has returned the value
\* already cached, and no data event was emitted.
C23_Witness ==
  /\ last.op = "DATA" /\ last.result = "hit" /\ last.gEmit["data"] = 0
  /\ last.req.kind = "sp" /\ last.req.owner = "poll"
  /\ data[TEMP_SUPPLY.name] = [num |-> 20, den |-> 1]

\* C23: ... and a poll that returns the same values as the previous poll
\* emits no data event: in every state, caching again the values that the
\* last completed poll returned emits nothing.
C23_SameValuesNoData ==
  \A p \in DOMAIN reqs :
    (/\ reqs[p].kind = "sp" /\ reqs[p].owner = "poll"
     /\ reqs[p].outcome = "resolved"
     /\ \A q \in DOMAIN reqs :
          (q > p /\ reqs[q].owner = "poll") => reqs[q].outcome # "resolved") =>
      LET d == CHOOSE j \in 1..(p - 1) :
                 /\ reqs[j].kind = "dp" /\ reqs[j].owner = "poll"
                 /\ reqs[j].outcome = "resolved"
                 /\ \A k \in (j + 1)..(p - 1) :
                      ~(reqs[k].kind = "dp" /\ reqs[k].owner = "poll"
                          /\ reqs[k].outcome = "resolved")
          b == Begin(Cur, "DATA", -1)
          r == PollCacheSetpoints(PollCacheDatapoints(b, reqs[d].value),
                                  reqs[p].value)
      IN  r.last.gEmit["data"] = 0

\* C24: the result of readDatapoints / readSetpoints called with keys,
\* answered by a response that carries n values (the count it declares,
\* capped by the values present), maps keys[i] to the i-th value (signed for
\* datapoints, unsigned for setpoints) for i <= min(|keys|, n) and has no
\* other key.
C24_ResultMapsKeysByIndex ==
  (call.fn = "read" /\ call.done) =>
    LET n == Min(call.count, Len(call.ws))
        m == Min(Len(call.keys), n)
    IN  /\ DOMAIN call.ret = {call.keys[i] : i \in 1..m}
        /\ \A i \in 1..m :
             call.ret[call.keys[i]] =
               IF call.kind = "dp" /\ call.ws[i] >= 32768
               THEN call.ws[i] - 65536 ELSE call.ws[i]

\* C24 witness: three keys were requested and the response declared two
\* values while carrying three; the third key is absent from the result.
C24_Witness ==
  /\ call.fn = "read" /\ call.done
  /\ Len(call.keys) = 3 /\ call.count = 2 /\ Len(call.ws) = 3
  /\ DOMAIN call.ret = {"TEMP_SUPPLY", "TEMP_OUTSIDE"}
  /\ call.kind = "dp" /\ call.ret["TEMP_SUPPLY"] = -1

\* C25: setValue with a name that is no setpoint fails with UnknownSetpoint,
\* and with a raw value below min or above max with OutOfRange, in every
\* state (connected or not); such a call sends no packet, allocates no
\* sequence number, leaves the cache as it was and emits no event.
C25_SetValueRejectedBeforeWire ==
  /\ [](\A name \in SetValueNames, value \in SetValueValues :
          LET b == Begin(Cur, "setValue", -1)
              r == RunMicro(SetValue(b, name, value))
              raw == (2 * value.num + value.den) \div (2 * value.den)
          IN  /\ name # "fanSpeed" =>
                   r = [b EXCEPT !.last.result = "UnknownSetpoint"]
              /\ (name = "fanSpeed" /\ (raw < 0 \/ raw > 4)) =>
                   r = [b EXCEPT !.last.result = "OutOfRange"]
              /\ (name = "fanSpeed" /\ raw >= 0 /\ raw <= 4) =>
                   r.last.result \notin {"UnknownSetpoint", "OutOfRange"})
  /\ [][last'.result \in {"UnknownSetpoint", "OutOfRange"} =>
          /\ last'.op = "setValue"
          /\ last'.sent = <<>> /\ last'.req = NoReq
          /\ last'.gEmit = NoEmitG /\ last'.sEmit = NoEmitS
          /\ UNCHANGED <<seqId, data, reqs, pendingRequests, timeouts,
                         connected, socket, consecutiveErrors>>]_vars

\* C25 witness: setValue was refused with OutOfRange on a connected
\* session, before any request of its own.
C25_Witness ==
  /\ last.op = "setValue" /\ last.result = "OutOfRange"
  /\ connected /\ gConn /\ socket = "open" /\ seqId = SeqStart + 2

\* C26: setValue with an in-range value on a connected session sends exactly
\* one write packet, with the single entry {id 0, value round(v * divider) -
\* offset, param writeAddress}, and changes neither the cache nor emits data
\* in that step; the cache entry becomes v and data is emitted in the step in
\* which that write is acknowledged, and in no other step but a poll's;
\* when the write times out or is refused the cache stays as it was.
C26_WriteThenCache ==
  /\ []((gConn /\ connected /\ socket = "open") =>
          \A value \in {v \in SetValueValues :
                          v.num >= 0 /\ 2 * v.num + v.den < 10 * v.den} :
            LET b == Begin(Cur, "setValue", -1)
                r == RunMicro(SetValue(b, "fanSpeed", value))
                raw == (2 * value.num + value.den) \div (2 * value.den)
            IN  /\ r.last.sent =
                     <<[t |-> "wr", seq |-> seqId,
                        entries |-> <<[id |-> 0, value |-> raw * 1 - 0,
                                       param |-> 100]>>]>>
                /\ r.data = data /\ r.last.gEmit = NoEmitG
                /\ Len(r.reqs) = Len(reqs) + 1
                /\ r.reqs[Len(r.reqs)].frame =
                     [name |-> "fanSpeed", value |-> value])
  /\ [][LET acked == {r \in last'.settled \cap DOMAIN reqs :
                        /\ reqs[r].settles = 0
                        /\ reqs'[r].outcome = "resolved"
                        /\ reqs[r].owner = "setValue"}
            polled == {r \in last'.settled \cap DOMAIN reqs :
                         /\ reqs[r].settles = 0
                         /\ reqs'[r].outcome = "resolved"
                         /\ reqs[r].owner = "poll"}
        IN  /\ \A r \in acked :
                 /\ data' = [data EXCEPT ![reqs[r].frame.name] =
                                           reqs[r].frame.value]
                 /\ last'.gEmit["data"] = 1
            /\ (acked = {} /\ polled = {}) =>
                 (data' = data /\ last'.gEmit["data"] = 0)
            /\ last'.op = "setValue" =>
                 /\ Len(last'.sent) <= 1
                 /\ last'.req.result = "pending" =>
                      /\ Len(last'.sent) = 1 /\ last'.sent[1].t = "wr"
                      /\ Len(last'.sent[1].entries) = 1]_vars

\* C26 witness: the write of setValue("fanSpeed", 2.5) was acknowledged, the
\* cache holds 2.5 and data was emitted.
C26_Witness ==
  /\ last.op = "DATA" /\ last.gEmit["data"] = 1
  /\ data["fanSpeed"] = [num |-> 5, den |-> 2]
  /\ \E r \in last.settled :
       reqs[r].owner = "setValue" /\ reqs[r].outcome = "resolved"

\* C30: for every setpoint descriptor of the two catalogs, and for
\* descriptors with a divider of 0 (taken as 1) or without an offset (taken
\* as 0), converting an integer display value v to raw and back gives v.
C30_DisplayRawRoundTrip ==
  (call.fn = "roundTrip" /\ call.done) =>
    call.ret = [num |-> call.v, den |-> 1]

\* C30 witness: a negative value went through TEMP_SETPOINT's conversion
\* (divider 10, offset 100) and came back.
C30_Witness ==
  /\ call.fn = "roundTrip" /\ call.done
  /\ call.register = [divider |-> 10, offset |-> 100]
  /\ call.v = -7 /\ call.ret = [num |-> -7, den |-> 1]

\* C27: the list that broadcast discovery returns contains every device
\* whose valid response arrived before the timeout, and no (deviceId,
\* address, port) triple twice.
C27_DiscoveryListUnique ==
  disc.promise = "resolved" =>
    /\ \A dev \in disc.answered :
         \E i \in DOMAIN disc.result : disc.result[i] = dev
    /\ \A i, j \in DOMAIN disc.result :
         i # j => disc.result[i] # disc.result[j]

\* C28: a DATA frame whose CRYPT payload declares a crypto code other than
\* cleartext is rejected: handling it fulfils no pending request, stores no
\* model info and passes no command bytes on.
C28_NonCleartextRejected ==
  (socket = "open" /\ bindDone) =>
    \A m \in Messages :
      (m.type = "DATA" /\ m.ptype = PAYLOAD_CRYPT /\ m.crypto # CRYPTO_CLEARTEXT) =>
        LET r == RunMicro(HandleMessage(Begin(Cur, "DATA", -1), m)) IN
          /\ r.pendingRequests = pendingRequests
          /\ r.reqs = reqs
          /\ r.modelInfo = modelInfo
          /\ r.last.settled = {}
          /\ r.data = data

\* C29: a malformed datagram (shorter than 16 bytes, a DATA frame cut inside
\* its CRYPT payload header, a payload of another type, a connect response
\* with a bad status or too short) is dropped silently: the handler throws
\* nothing, emits nothing and changes nothing.
C29_MalformedDroppedSilently ==
  /\ last.result # "throws"
  /\ (socket = "open" /\ bindDone) =>
       \A m \in Messages :
         (\/ m.len < HDR_SIZE
          \/ (m.type = "DATA" /\ (m.ptype # PAYLOAD_CRYPT \/ m.len < HDR_SIZE + 6))
          \/ (m.type = "U_CONNECT" /\ (m.status # StatusOk \/ m.len < ConnectRespMinLen))) =>
           LET b == Begin(Cur, m.type, -1)
               r == RunMicro(HandleMessage(b, m))
           IN  r = b

\* C31: every DATA packet the codec builds (ping, datapoint read, setpoint
\* read, setpoint write, with or without the TAG bytes) ends with the
\* big-endian sum of all preceding bytes modulo 2^16, and the length field of
\* its header is the length of the whole packet, checksum included.
C31_ChecksumAndLength ==
  (call.fn = "build" /\ call.done /\ call.ret.t = "ok") =>
    LET p == call.ret.bytes
        n == Len(p)
    IN  /\ n >= HDR_SIZE + 2
        /\ U16(p, n - 2) = SumBytes(SubSeq(p, 1, n - 2)) % 65536
        /\ U16(p, 14) = n

\* a tagged packet was built whose byte sum does not fit 16 bits
C31_Witness ==
  /\ call.fn = "build" /\ call.done /\ call.ret.t = "ok"
  /\ call.tag /\ call.kind = "wr"
  /\ SumBytes(SubSeq(call.ret.bytes, 1, Len(call.ret.bytes) - 2)) > 65535

\* C32: for a DATA frame whose sequence number is neither 50 nor in 100..199,
\* a pending entry with that number has its timeout cancelled, is removed and
\* fulfilled with the command bytes; the session emits `data` exactly when
\* there is no such entry.
C32_DataEventOnlyWhenUnmatched ==
  [][(last'.op = "DATA" /\ last'.result \in {"hit", "miss"}) =>
       /\ last'.result = "hit" =>
            /\ last'.arg \in DOMAIN pendingRequests
            /\ last'.arg \notin DOMAIN pendingRequests'
            /\ LET rid == pendingRequests[last'.arg] IN
                 /\ rid \in timeouts /\ rid \notin timeouts'
                 /\ last'.settled = {rid}
                 /\ reqs'[rid].outcome = "resolved"
       /\ last'.result = "miss" => last'.arg \notin DOMAIN pendingRequests
       /\ last'.sEmit["data"] = 1 <=> last'.result = "miss"]_vars

\* C33: during connect() at most connectRetries U_CONNECT packets are sent,
\* one by the bind callback and one by each retransmission timer (armed at
\* the multiples of connectRetryInterval), and none once the session has been
\* connected, after disconnect(), or after the deadline timer has fired.
C33_ConnectRetransmission ==
  /\ [](call.fn = "connect" => call.sent <= connectRetries)
  /\ [][(call.fn = "connect" /\ call'.sent # call.sent) =>
          /\ call'.sent = call.sent + 1
          /\ last'.op \in {"bind", "retry"}
          /\ last'.op = "bind" => call.sent = 0
          /\ last'.op = "retry" =>
               /\ retryTimers \in 1..(connectRetries - 1)
               /\ retryTimers' = retryTimers - 1
          /\ ~call.connected /\ ~call.disconnected /\ ~call.deadline]_vars

\* all connectRetries packets have been sent
C33_Witness ==
  /\ call.fn = "connect" /\ call.sent = connectRetries
  /\ last.op = "retry" /\ ~connected

\* C34: one call of GenvexDevice.disconnect() on a connected engine, by the
\* caller or by the failure escalation, makes the engine emit exactly one
\* `disconnected` event.
C34_OneDisconnectedEvent ==
  [][(connected /\ gConn /\ listeners /\ ~gConn') =>
       last'.gEmit["disconnected"] = 1]_vars

\* C35: between event-loop steps the engine's consecutiveErrors is at least 0
\* and below maxConsecutiveErrors, whatever the interleaving of overlapping
\* polls, timeouts and responses.
C35_ConsecutiveErrorsInRange ==
  consecutiveErrors \in 0..(maxConsecutiveErrors - 1)

\* two polls have failed in a row and a third one is in flight
C35_Witness ==
  /\ consecutiveErrors = maxConsecutiveErrors - 1
  /\ pendingRequests # EmptyTable
  /\ \E r \in DOMAIN reqs : reqs[r].owner = "poll" /\ reqs[r].outcome = "none"

\* C36: within one poll the setpoint read is sent only after the datapoint
\* read of that poll has resolved (it is sent by the step that resolves it,
\* once); when the datapoint read fails, no setpoint read is sent for the
\* poll.
C36_SetpointReadAfterDatapointRead ==
  [][LET spSent == {i \in DOMAIN last'.sent : last'.sent[i].t = "sp"}
         dpDone(how) ==
           {r \in last'.settled :
              /\ reqs[r].kind = "dp" /\ reqs[r].owner = "poll"
              /\ reqs[r].outcome = "none" /\ reqs'[r].outcome \in how}
     IN  /\ Cardinality(spSent) <= Cardinality(dpDone({"resolved"}))
         /\ dpDone({"timeout"}) # {} => spSent = {}
         /\ (last'.req.kind = "dp" /\ last'.req.result # "pending") =>
              spSent = {}]_vars

\* the reply to the datapoint read of a poll has arrived while the datapoint
\* read of an overlapping poll is pending, and the setpoint read was sent
C36_Witness ==
  /\ last.op = "DATA" /\ last.req.kind = "sp" /\ last.req.result = "pending"
  /\ \E i \in DOMAIN last.sent : last.sent[i].t = "sp"
  /\ \E r \in DOMAIN reqs :
       /\ reqs[r].kind = "dp" /\ reqs[r].outcome = "none"
       /\ reqs[r].seq \in DOMAIN pendingRequests

\* C37: after GenvexDevice.disconnect() (by the caller or by the failure
\* escalation, once connect() has been called) the engine has no poll timer
\* armed, sends no further read request and emits no further `data` or
\* `polled` event, also when a poll was in flight at the disconnect.  The
\* client's connection field tells that disconnect() has run.
C37_QuietAfterDisconnect ==
  /\ []((connPromise # "none" /\ ~clientConn) => (~pollTimer /\ ~gConn))
  /\ [][((last'.op = "disconnect" \/ last'.failure = "polls")
           /\ connPromise # "none") => ~clientConn']_vars
  /\ [][(connPromise # "none" /\ ~clientConn) =>
          /\ \A i \in DOMAIN last'.sent : last'.sent[i].t \notin {"dp", "sp"}
          /\ last'.gEmit["data"] = 0 /\ last'.gEmit["polled"] = 0
          /\ ~clientConn']_vars

\* disconnect() was called while a poll awaited its reply, and a later event
\* (the socket's close) has been handled
C37_Witness ==
  /\ connPromise = "resolved" /\ ~clientConn
  /\ last.op = "socketClose"
  /\ \E r \in DOMAIN reqs : reqs[r].owner = "poll" /\ reqs[r].outcome = "none"

\* C38: an engine constructed the way Optima251Device and Optima270Device
\* construct it polls successfully.  With a connected session a poll sends
\* its datapoint read; when the reply to its setpoint read arrives it emits
\* `polled` and consecutiveErrors is 0; and the counter rises, or the engine
\* disconnects itself, only in a step in which a read timed out.
C38_HostEnginePolls ==
  [][(host.class # "none" /\ connected) =>
       /\ (last'.op = "poll" /\ gConn) =>
            \E i \in DOMAIN last'.sent : last'.sent[i].t = "dp"
       /\ (\E r \in last'.settled :
             /\ reqs[r].kind = "sp" /\ reqs[r].owner = "poll"
             /\ reqs[r].outcome = "none" /\ reqs'[r].outcome = "resolved") =>
            (last'.gEmit["polled"] = 1 /\ consecutiveErrors' = 0)
       /\ (consecutiveErrors' > consecutiveErrors \/ last'.failure = "polls") =>
            last'.op = "timeout"]_vars

\* C39: after onDeleted() or onUninit() of a host device no reconnect timer
\* is armed and no further connection attempt is started, also when the
\* device was connected when it was deleted.
C39_NoReconnectAfterDelete ==
  /\ [](host.deleted => ~host.reconnectTimer)
  /\ [][host.deleted => host'.attempts = host.attempts]_vars

\* C40: discover() never attempts to send a discovery packet after cleanup()
\* has closed and released its socket, by the timeout or by a socket error,
\* whatever the timeout, retries and retryInterval are: no retry timer
\* callback runs sendPacket against a released socket.
C40_NoSendAfterCleanup ==
  disc.socket = "null" => ~disc.thrown

====
